---- MODULE Spec2Model ----
(***************************************************************************)
(* Model of the image tooling of the biginky repository:                   *)
(*   scripts/convert_image_with_maps.py  palette search, Atkinson          *)
(*                                       quantizer, mask builder, map      *)
(*                                       encoder, batch driver             *)
(*   scripts/prepare_eink_image.py       Spectra palette mapping, the same *)
(*                                       encoder and box builder           *)
(*   scripts/verify_map_file.py          map decoder and analyzer          *)
(* and of the board helper tanmatsu.py: the I2C register functions of      *)
(* Coprocessor and ES8156, and the keyboard polling and injection.         *)
(* Bytes are integers 0..255, a byte string is a sequence of them.  A mask *)
(* (a numpy uint8 array of shape (h, w)) is a record holding its shape and *)
(* the set px of the pixels <<x, y>> whose value is > 0; an image is a     *)
(* record holding its shape and the function px from pixels to values.     *)
(***************************************************************************)
EXTENDS Integers, Sequences, FiniteSets, TLC

VARIABLES
    entry,          \* the entry point that is running
    keep_out_mask,  \* the mask handed to save_keepout_map (None or a mask)
    oldFile,        \* the output path's content before the call
    mapFile,        \* the output path's content now
    bitmap_bytes,   \* save_keepout_map: the packed bitmap
    encPc,          \* save_keepout_map: position
    encExc,         \* save_keepout_map: exception that left it
    map_data,       \* read_map_file: the dict returned or the exception
    bitmap,         \* decode_bitmap: pixels decoded as keep-out
    decPc,          \* verify_map_file: position
    refBitmap,      \* the pixels decoded from the file before it was altered
    tampers,        \* how often the file was altered after a first decode
    img,            \* process_image: size of the resized image
    HAS_ML,         \* module level: the ML imports succeeded
    generate_maps,  \* args.generate_maps
    map_method,     \* args.map_method
    expand_margin,  \* args.map_expand
    all_image_files, \* module level: the files gathered, each with where it raises
    next_file,      \* module level: items the for loop has taken from the list
    attempted,      \* the list positions process_image was called on, in call order
    procPc,         \* module level / process_image: position
    pngFile,        \* the converted image was written
    use_segmentation, \* detect_objects_yolo: parameter, cleared by the fallback
    model,          \* detect_objects_yolo: the YOLO model loaded
    tried,          \* detect_objects_yolo: the YOLO(...) calls made and how they ended
    results,        \* detect_objects_yolo: what the model returned
    idx,            \* detect_objects_yolo: detections of the result consumed
    detect_mask,    \* detect_objects_yolo: its local keep_out_mask
    detections,     \* detect_objects_yolo: its counter
    bldPc,          \* detect_objects_yolo: position
    rgb,            \* closest_palette_color: its argument
    closest,        \* closest_palette_color: the index returned
    palPc,          \* closest_palette_color: position
    img_array,      \* map_to_spectra: np.array(img), the RGB pixels
    mapped,         \* map_to_spectra: the array returned
    mapPc,          \* map_to_spectra: position
    analysis,       \* analyze_map: the dict returned
    working_img,    \* quantize_atkinson: the float array, in units of 1/Scale
    visited,        \* quantize_atkinson: pixels the loops have processed
    error,          \* quantize_atkinson: the error of the last pixel processed
    quantized_array, \* quantize_atkinson: the uint8 array returned
    atkPc,          \* quantize_atkinson: position
    bus_lock,       \* i2c: who holds the bus lock
    regOp,          \* the register function that is running or ran last
    reg_value,      \* the register function's value argument
    regPc,          \* the register function's position
    regExc,         \* the exception that left the register function
    expired,        \* time.monotonic() - start > timeout
    acquired,       \* try_lock returned True in this call
    unlock_calls,   \* calls of i2c.unlock() made by this call
    buffer,         \* the bytes the last read returned
    transfers,      \* i2c transfers made by the handler that is running
    _auto_poll_coprocessor, \* module global: a Coprocessor is set
    _auto_poll_prev_state,  \* module global: None or a KeyboardState
    _auto_poll_active,      \* module global
    _chars_injected,        \* module global
    kbPc,           \* the keyboard handler that is running and its position
    previous_state, \* inject_keyboard_to_stdin: its argument
    written,        \* the write_char / write_string calls of the last handler
    returned        \* what the last handler returned or raised

codecVars == <<keep_out_mask, oldFile, mapFile, bitmap_bytes, encPc, encExc>>
verifyVars == <<map_data, bitmap, decPc, refBitmap, tampers>>
argVars == <<img, HAS_ML, generate_maps, map_method, expand_margin, all_image_files>>
loopVars == <<next_file, attempted>>
detectVars == <<use_segmentation, model, tried, results, idx, detect_mask, detections,
                bldPc>>
buildVars == <<argVars, loopVars, procPc, pngFile, detectVars>>
paletteVars == <<rgb, closest, palPc>>
spectraVars == <<img_array, mapped, mapPc>>
atkVars == <<working_img, visited, error, quantized_array, atkPc>>
i2cVars == <<bus_lock, regOp, reg_value, regPc, regExc, expired, acquired, unlock_calls,
             buffer, transfers>>
kbVars == <<_auto_poll_coprocessor, _auto_poll_prev_state, _auto_poll_active,
            _chars_injected, kbPc, previous_state, written, returned>>
tanmatsuVars == <<i2cVars, kbVars>>
toolVars == <<paletteVars, spectraVars, analysis, atkVars, tanmatsuVars>>
vars == <<entry, codecVars, verifyVars, buildVars, toolVars>>

----------------------------------------------------------------------------
(* Bounds of the model *)

MaxW == 9
MaxH == 2
MaxOnes == 1
MaxVW == 4
MaxVH == 2
MaxStream == 3
MaxExtra == 2
MaxTamper == 1
MaxDet == 2
MaxMargin == 1
MaxFiles == 2
MaxChars == 3

(* Program constants *)

U16Max == 65535
HeaderSize == 16

----------------------------------------------------------------------------
(* Values *)

Min(a, b) == IF a < b THEN a ELSE b
Max(a, b) == IF a > b THEN a ELSE b

None == [isNone |-> TRUE, w |-> 0, h |-> 0, px |-> {}]
Mask(w, h, px) == [isNone |-> FALSE, w |-> w, h |-> h, px |-> px]
Pixels(w, h) == (0 .. (w - 1)) \X (0 .. (h - 1))

(* An array of shape (h, w) with a value in every cell *)
Image(w, h, px) == [w |-> w, h |-> h, px |-> px]
NoImage == Image(0, 0, [p \in {} |-> 0])

NoFile == [exists |-> FALSE, data |-> <<>>]
File(data) == [exists |-> TRUE, data |-> data]

RECURSIVE Repeat(_, _)
Repeat(b, n) == IF n <= 0 THEN <<>> ELSE <<b>> \o Repeat(b, n - 1)

MAGIC == <<75, 79, 77, 65, 80>>
XOMAP == <<88, 79, 77, 65, 80>>
VERSION == 1

----------------------------------------------------------------------------
(* struct.pack / struct.unpack *)

StructFitsH(v) == 0 <= v /\ v <= U16Max
StructPackH_BigEndian(v) == <<(v \div 256) % 256, v % 256>>
StructPackH(v) == <<v % 256, (v \div 256) % 256>>
StructUnpackH(b) == b[1] + 256 * b[2]

----------------------------------------------------------------------------
(* save_keepout_map: the packing loops *)

RowBytes_Padded(w) == w \div 8 + 1
RowBytes_Floor(w) == w \div 8
RowBytes(w) == (w + 7) \div 8

(* The packing with the first pixel of a group in bit 0 *)
RECURSIVE PackBits_LsbFirst(_, _, _, _)
PackBits_LsbFirst(m, y, x, bit) ==
    IF bit > 7 THEN 0
    ELSE (IF x + bit < m.w /\ <<x + bit, y>> \in m.px THEN 2 ^ bit ELSE 0)
         + PackBits_LsbFirst(m, y, x, bit + 1)

RECURSIVE PackBits(_, _, _, _)
PackBits(m, y, x, bit) ==
    IF bit > 7 THEN 0
    ELSE (IF x + bit < m.w /\ <<x + bit, y>> \in m.px THEN 2 ^ (7 - bit) ELSE 0)
         + PackBits(m, y, x, bit + 1)

PackBitmap(m) ==
    [i \in 1 .. (m.h * RowBytes(m.w)) |->
        PackBits(m, (i - 1) \div RowBytes(m.w), 8 * ((i - 1) % RowBytes(m.w)), 0)]

----------------------------------------------------------------------------
(* read_map_file and decode_bitmap *)

Read(s, pos, n) == SubSeq(s, pos + 1, Min(pos + n, Len(s)))

Raised(kind) == [exc |-> kind, width |-> 0, height |-> 0, bitmap |-> <<>>, extra |-> 0]
Unread == Raised("unread")

BadMagicBytes(magic) == magic # MAGIC

UnsupportedVersion_OlderOnly(version) == version < VERSION
UnsupportedVersion(version) == version # VERSION

IncompleteBitmap(bitmap_data, bitmap_size) == Len(bitmap_data) # bitmap_size

ExtraData_Rejected(extra) == IF Len(extra) > 0 THEN "ValueError" ELSE "none"
ExtraData(extra) == "none"

read_map_file(s) ==
    LET magic == Read(s, 0, 5)
        vb == Read(s, 5, 1)
        wb == Read(s, 6, 2)
        hb == Read(s, 8, 2)
    IN  IF Len(vb) < 1 \/ Len(wb) < 2 \/ Len(hb) < 2 THEN Raised("struct.error")
        ELSE LET version == vb[1]
                 width == StructUnpackH(wb)
                 height == StructUnpackH(hb)
                 bitmap_size == (width * height + 7) \div 8
                 bitmap_data == Read(s, HeaderSize, bitmap_size)
                 extra == Read(s, HeaderSize + bitmap_size, Len(s))
             IN  IF BadMagicBytes(magic) THEN Raised("ValueError")
                 ELSE IF UnsupportedVersion(version) THEN Raised("ValueError")
                 ELSE IF IncompleteBitmap(bitmap_data, bitmap_size) THEN Raised("ValueError")
                 ELSE IF ExtraData(extra) # "none" THEN Raised(ExtraData(extra))
                 ELSE [exc |-> "none", width |-> width, height |-> height,
                       bitmap |-> bitmap_data, extra |-> Len(extra)]

BitSet(byte, bit_idx) == (byte \div (2 ^ bit_idx)) % 2 = 1

decode_bitmap(bitmap_data, width, height) ==
    {p \in Pixels(width, height) :
        LET pixel_idx == p[2] * width + p[1]
            byte_idx == pixel_idx \div 8
            bit_idx == 7 - (pixel_idx % 8)
        IN  byte_idx < Len(bitmap_data) /\ BitSet(bitmap_data[byte_idx + 1], bit_idx)}

----------------------------------------------------------------------------
(* Inputs *)

RECURSIVE PxUpTo(_, _)
PxUpTo(n, P) ==
    IF n = 0 THEN {{}}
    ELSE LET prev == PxUpTo(n - 1, P) IN prev \cup {s \cup {p} : s \in prev, p \in P}

SmallMasks ==
    UNION {LET P == Pixels(d[1], d[2])
           IN  {Mask(d[1], d[2], s) : s \in PxUpTo(MaxOnes, P)}
               \cup {Mask(d[1], d[2], P \ s) : s \in PxUpTo(MaxOnes, P)}
           : d \in (1 .. MaxW) \X (1 .. MaxH)}

WideDims ==
    {<<300, 1>>, <<1, 258>>, <<U16Max, 1>>, <<1, U16Max>>,
     <<U16Max + 1, 1>>, <<1, U16Max + 1>>}
WideMasks ==
    UNION {{Mask(d[1], d[2], {}), Mask(d[1], d[2], {<<0, 0>>}),
            Mask(d[1], d[2], {<<d[1] - 1, d[2] - 1>>})} : d \in WideDims}

MaskInputs == SmallMasks \cup WideMasks

(* Masks whose width is a multiple of 8, and two masks with a two-byte
   width or height *)
AlignedDims == {<<8, 3>>, <<16, 2>>, <<16, 3>>}
AlignedMasks ==
    UNION {LET P == Pixels(d[1], d[2])
           IN  {Mask(d[1], d[2], s) : s \in PxUpTo(MaxOnes, P)}
               \cup {Mask(d[1], d[2], P \ s) : s \in PxUpTo(MaxOnes, P)}
           : d \in AlignedDims}

PackingInputs ==
    SmallMasks \cup AlignedMasks
    \cup {m \in WideMasks : m.w * m.h <= 300 /\ m.px # {}}

StaleMap == MAGIC \o <<VERSION>> \o <<1, 0>> \o <<1, 0>> \o Repeat(0, 6) \o <<128>>

----------------------------------------------------------------------------
(* save_keepout_map, one step per statement that touches the file *)

SaveKeepoutMap_Pack ==
    /\ encPc = "call"
    /\ IF keep_out_mask.isNone
       THEN /\ encPc' = "returned"
            /\ UNCHANGED bitmap_bytes
       ELSE /\ bitmap_bytes' = PackBitmap(keep_out_mask)
            /\ encPc' = "packed"
    /\ UNCHANGED <<entry, toolVars, keep_out_mask, oldFile, mapFile, encExc, verifyVars, buildVars>>

SaveKeepoutMap_Open ==
    /\ encPc = "packed"
    /\ mapFile' = File(<<>>)
    /\ encPc' = "open"
    /\ UNCHANGED <<entry, toolVars, keep_out_mask, oldFile, bitmap_bytes, encExc, verifyVars, buildVars>>

Write(pcFrom, bytes, pcTo) ==
    /\ encPc = pcFrom
    /\ mapFile' = File(mapFile.data \o bytes)
    /\ encPc' = pcTo
    /\ UNCHANGED <<entry, toolVars, keep_out_mask, oldFile, bitmap_bytes, encExc, verifyVars, buildVars>>

WritePackH(pcFrom, v, pcTo) ==
    /\ encPc = pcFrom
    /\ IF StructFitsH(v)
       THEN /\ mapFile' = File(mapFile.data \o StructPackH(v))
            /\ encPc' = pcTo
            /\ UNCHANGED encExc
       ELSE /\ encExc' = "struct.error"
            /\ encPc' = "raised"
            /\ UNCHANGED mapFile
    /\ UNCHANGED <<entry, toolVars, keep_out_mask, oldFile, bitmap_bytes, verifyVars, buildVars>>

SaveKeepoutMap_WriteMagic == Write("open", MAGIC, "magic")
SaveKeepoutMap_WriteVersion == Write("magic", <<VERSION>>, "version")
SaveKeepoutMap_WriteWidth == WritePackH("version", keep_out_mask.w, "width")
SaveKeepoutMap_WriteHeight == WritePackH("width", keep_out_mask.h, "height")
SaveKeepoutMap_WriteReserved == Write("height", Repeat(0, 6), "reserved")
SaveKeepoutMap_WriteBitmap == Write("reserved", bitmap_bytes, "returned")

save_keepout_map ==
    \/ SaveKeepoutMap_Pack
    \/ SaveKeepoutMap_Open
    \/ SaveKeepoutMap_WriteMagic
    \/ SaveKeepoutMap_WriteVersion
    \/ SaveKeepoutMap_WriteWidth
    \/ SaveKeepoutMap_WriteHeight
    \/ SaveKeepoutMap_WriteReserved
    \/ SaveKeepoutMap_WriteBitmap

----------------------------------------------------------------------------
(* verify_map_file: read_map_file, then analyze_map's decode_bitmap *)

EncoderLeft == encPc \in {"returned", "raised"}

ReadMapFile ==
    /\ decPc = "idle"
    /\ entry = "verify_map_file" \/ EncoderLeft
    /\ mapFile.exists
    /\ map_data' = read_map_file(mapFile.data)
    /\ decPc' = "read"
    /\ UNCHANGED <<entry, toolVars, codecVars, bitmap, refBitmap, tampers, buildVars>>

DecodeBitmap ==
    /\ decPc = "read"
    /\ map_data.exc = "none"
    /\ bitmap' = decode_bitmap(map_data.bitmap, map_data.width, map_data.height)
    /\ refBitmap' = IF tampers = 0
                    THEN decode_bitmap(map_data.bitmap, map_data.width, map_data.height)
                    ELSE refBitmap
    /\ decPc' = "decoded"
    /\ UNCHANGED <<entry, toolVars, codecVars, map_data, tampers, buildVars>>

----------------------------------------------------------------------------
(* analyze_map.  coverage, a float, is kept as the exact ratio num/den. *)

Ratio(n, d) == [num |-> n, den |-> d]

(* scipy.ndimage.label with its default structuring element: two pixels are
   neighbours when they share an edge; labels are given in raster order *)
Adjacent_8(p, q) ==
    /\ p # q
    /\ p[1] - q[1] \in {-1, 0, 1}
    /\ p[2] - q[2] \in {-1, 0, 1}
Adjacent(p, q) ==
    \/ p[2] = q[2] /\ p[1] - q[1] \in {-1, 1}
    \/ p[1] = q[1] /\ p[2] - q[2] \in {-1, 1}

RECURSIVE Grow(_, _)
Grow(comp, px) ==
    LET next == comp \cup {q \in px : \E p \in comp : Adjacent(p, q)}
    IN  IF next = comp THEN comp ELSE Grow(next, px)

RasterFirst(px) ==
    CHOOSE p \in px : \A q \in px : p[2] < q[2] \/ (p[2] = q[2] /\ p[1] <= q[1])

RECURSIVE Label(_)
Label(px) ==
    IF px = {} THEN <<>>
    ELSE LET comp == Grow({RasterFirst(px)}, px)
         IN  <<comp>> \o Label(px \ comp)

Region(coords) ==
    LET x_min == CHOOSE x \in {c[1] : c \in coords} : \A c \in coords : x <= c[1]
        x_max == CHOOSE x \in {c[1] : c \in coords} : \A c \in coords : x >= c[1]
        y_min == CHOOSE y \in {c[2] : c \in coords} : \A c \in coords : y <= c[2]
        y_max == CHOOSE y \in {c[2] : c \in coords} : \A c \in coords : y >= c[2]
    IN  [bbox |-> <<x_min, y_min, x_max, y_max>>, area |-> Cardinality(coords)]

(* list.sort(key=area, reverse=True): stable, equal areas keep their order *)
RECURSIVE InsertByArea(_, _)
InsertByArea(sorted, r) ==
    IF sorted = <<>> THEN <<r>>
    ELSE IF sorted[Len(sorted)].area >= r.area THEN Append(sorted, r)
    ELSE Append(InsertByArea(SubSeq(sorted, 1, Len(sorted) - 1), r), sorted[Len(sorted)])

RECURSIVE SortRegionsFrom(_, _)
SortRegionsFrom(regions, k) ==
    IF k = 0 THEN <<>>
    ELSE InsertByArea(SortRegionsFrom(regions, k - 1), regions[k])

SortRegions_Unsorted(regions) == regions
SortRegions(regions) == SortRegionsFrom(regions, Len(regions))

analyze_map(md) ==
    LET width == md.width
        height == md.height
        bm == decode_bitmap(md.bitmap, width, height)
        keep_out_pixels == Cardinality(bm)
        total_pixels == width * height
        labeled == Label(bm)
        regions == [i \in 1 .. Len(labeled) |-> Region(labeled[i])]
    IN  [width |-> width, height |-> height, total_pixels |-> total_pixels,
         keep_out_pixels |-> keep_out_pixels,
         coverage |-> Ratio(keep_out_pixels * 100, total_pixels),
         num_regions |-> Len(labeled),
         regions |-> SortRegions(regions),
         bitmap |-> bm]

NoAnalysis ==
    [width |-> 0, height |-> 0, total_pixels |-> 0, keep_out_pixels |-> 0,
     coverage |-> Ratio(0, 1), num_regions |-> 0, regions |-> <<>>, bitmap |-> {}]

AnalyzeMap ==
    /\ decPc = "read"
    /\ map_data.exc = "none"
    /\ analysis' = analyze_map(map_data)
    /\ bitmap' = analysis'.bitmap
    /\ decPc' = "analyzed"
    /\ UNCHANGED <<entry, tanmatsuVars, codecVars, map_data, refBitmap, tampers,
                   buildVars, paletteVars, spectraVars, atkVars>>

----------------------------------------------------------------------------
(* The file is altered between two runs of verify_map_file *)

BytePool == {0, 255}

RECURSIVE SeqsUpTo(_, _)
SeqsUpTo(n, S) ==
    IF n = 0 THEN {<<>>}
    ELSE LET prev == SeqsUpTo(n - 1, S) IN prev \cup {Append(s, b) : s \in prev, b \in S}

Retry ==
    /\ bitmap' = {}
    /\ map_data' = Unread
    /\ decPc' = "idle"
    /\ tampers' = tampers + 1
    /\ UNCHANGED <<entry, toolVars, keep_out_mask, oldFile, bitmap_bytes, encPc, encExc, refBitmap, buildVars>>

AppendExtra ==
    /\ entry = "verify_map_file"
    /\ decPc = "decoded"
    /\ tampers < MaxTamper
    /\ \E n \in 1 .. MaxExtra, b \in BytePool :
          mapFile' = File(mapFile.data \o Repeat(b, n))
    /\ Retry

PaddingBits(width, height) == (8 - ((width * height) % 8)) % 8

ChangePadding ==
    /\ entry = "verify_map_file"
    /\ decPc = "decoded"
    /\ tampers < MaxTamper
    /\ PaddingBits(map_data.width, map_data.height) > 0
    /\ LET last == HeaderSize + Len(map_data.bitmap)
           pad == PaddingBits(map_data.width, map_data.height)
           kept == mapFile.data[last] - (mapFile.data[last] % (2 ^ pad))
       IN  \E v \in 0 .. ((2 ^ pad) - 1) :
              /\ kept + v # mapFile.data[last]
              /\ mapFile' = File([mapFile.data EXCEPT ![last] = kept + v])
    /\ Retry

----------------------------------------------------------------------------
(* detect_objects_yolo: helpers.  Box coordinates are the detector's floats, *)
(* kept in half pixels; a soft mask holds the pixels valued 1.0 (full) and   *)
(* the pixels valued 0.5 (half), every other pixel being 0.  Soft masks come *)
(* at the image's shape, so the cv2.resize of line 150 is not taken.  One    *)
(* image is passed to the model, so results holds one result.                *)

Box(x1, y1, x2, y2) == [x1 |-> x1, y1 |-> y1, x2 |-> x2, y2 |-> y2]
Soft(full, half) == [full |-> full, half |-> half]

IntTrunc(v) == IF v >= 0 THEN v \div 2 ELSE -((-v) \div 2)

SliceIdx(i, n) == IF i < 0 THEN Max(0, i + n) ELSE Min(i, n)
SliceRect(x1, y1, x2, y2, w, h) ==
    (SliceIdx(x1, w) .. (SliceIdx(x2, w) - 1)) \X (SliceIdx(y1, h) .. (SliceIdx(y2, h) - 1))

ExpandBox_Inwards(b, margin, w, h) ==
    [x1 |-> Max(0, IntTrunc(b.x1) + margin),
     y1 |-> Max(0, IntTrunc(b.y1) + margin),
     x2 |-> Min(w, IntTrunc(b.x2) + margin),
     y2 |-> Min(h, IntTrunc(b.y2) + margin)]

ExpandBox(b, margin, w, h) ==
    [x1 |-> Max(0, IntTrunc(b.x1) - margin),
     y1 |-> Max(0, IntTrunc(b.y1) - margin),
     x2 |-> Min(w, IntTrunc(b.x2) + margin),
     y2 |-> Min(h, IntTrunc(b.y2) + margin)]

MarkBox_Overwrite(mask, b, margin, w, h) ==
    LET e == ExpandBox(b, margin, w, h)
    IN  SliceRect(e.x1, e.y1, e.x2, e.y2, w, h)

MarkBox(mask, b, margin, w, h) ==
    LET e == ExpandBox(b, margin, w, h)
    IN  mask \cup SliceRect(e.x1, e.y1, e.x2, e.y2, w, h)

SoftValue(sm, p) == IF p \in sm.full THEN 10 ELSE IF p \in sm.half THEN 5 ELSE 0
Binarize(sm, w, h) == {p \in Pixels(w, h) : SoftValue(sm, p) > 5}

(* cv2.dilate with a k x k kernel of ones anchored at its centre k \div 2 *)
Dilate(px, k, w, h) ==
    LET a == k \div 2
    IN  UNION {(Max(0, s[1] - (k - 1 - a)) .. Min(w - 1, s[1] + a))
               \X (Max(0, s[2] - (k - 1 - a)) .. Min(h - 1, s[2] + a)) : s \in px}

MarkMask(mask, sm, margin, w, h) ==
    LET binary_mask == Binarize(sm, w, h)
    IN  mask \cup (IF margin > 0 THEN Dilate(binary_mask, margin * 2, w, h)
                   ELSE binary_mask)

DetectReturn_AlwaysMask(n, mask, w, h) == Mask(w, h, mask)
DetectReturn(n, mask, w, h) == IF n = 0 THEN None ELSE Mask(w, h, mask)

----------------------------------------------------------------------------
(* What the detector may return *)

SmallImage == [w |-> 4, h |-> 2]
TinyImage == [w |-> 1, h |-> 1]
ExampleImage == [w |-> 100, h |-> 100]
Images == {SmallImage, ExampleImage}

WholeBoxes(w, h) ==
    {Box(2 * x1, 2 * y1, 2 * x2, 2 * y2) :
        x1 \in 0 .. w, y1 \in 0 .. h, x2 \in 0 .. w, y2 \in 0 .. h}
HalfBoxes(w, h) ==
    {Box(2 * x1 + 1, 2 * y1 + 1, 2 * x2 + 1, 2 * y2 + 1) :
        x1 \in 0 .. (w - 1), y1 \in 0 .. (h - 1), x2 \in 0 .. (w - 1), y2 \in 0 .. (h - 1)}
ProperBoxes(w, h) ==
    {b \in WholeBoxes(w, h) \cup HalfBoxes(w, h) : b.x1 < b.x2 /\ b.y1 < b.y2}

ExampleBox == Box(20, 20, 40, 40)
ExampleBoxes == {ExampleBox, Box(30, 30, 60, 80)}

BoxFamily(im) == IF im = ExampleImage THEN ExampleBoxes ELSE ProperBoxes(im.w, im.h)
SoftFamily(im) ==
    LET P == IF im = ExampleImage THEN {<<0, 0>>, <<10, 10>>} ELSE Pixels(im.w, im.h)
    IN  {Soft({p}, {}) : p \in P} \cup {Soft({}, {p}) : p \in P}
(* args.map_expand is any int: argparse accepts a negative one *)
Margins(im) ==
    IF im = ExampleImage THEN {5} ELSE IF im = TinyImage THEN {0} ELSE (-1) .. MaxMargin

(* Where the processing of an input file raises: never, in Image.open, or
   in the save of the converted image *)
Raises == {"never", "open", "save"}

SoftBox(sm) ==
    LET p == CHOOSE q \in sm.full \cup sm.half : TRUE
    IN  Box(2 * p[1], 2 * p[2], 2 * p[1] + 2, 2 * p[2] + 2)

NoResults == [hasMasks |-> FALSE, masks |-> <<>>, boxes |-> <<>>]
BoxResults(im) ==
    {[hasMasks |-> FALSE, masks |-> <<>>, boxes |-> bs] :
        bs \in SeqsUpTo(MaxDet, BoxFamily(im))}
SegResults(im) ==
    {NoResults}
    \cup {[hasMasks |-> TRUE, masks |-> ms, boxes |-> [i \in 1 .. Len(ms) |-> SoftBox(ms[i])]] :
            ms \in SeqsUpTo(MaxDet, SoftFamily(im)) \ {<<>>}}

----------------------------------------------------------------------------
(* detect_objects_yolo *)

DetectLeaves(value) ==
    /\ keep_out_mask' = value
    /\ bldPc' = "returned"
    /\ procPc' = "quantize"
    /\ results' = NoResults
    /\ idx' = 0
    /\ detect_mask' = {}
    /\ UNCHANGED model

Tried(file, ok) == [file |-> file, ok |-> ok]

Detect_CheckML ==
    /\ bldPc = "call"
    /\ IF ~HAS_ML
       THEN /\ DetectLeaves(None)
            /\ UNCHANGED <<use_segmentation, detections>>
       ELSE /\ bldPc' = "load"
            /\ UNCHANGED <<keep_out_mask, procPc, use_segmentation, model, results, idx,
                           detect_mask, detections>>
    /\ UNCHANGED <<entry, toolVars, oldFile, mapFile, bitmap_bytes, encPc, encExc, verifyVars,
                   argVars, loopVars, pngFile, tried>>

Detect_LoadModel_NoFallback ==
    /\ bldPc = "load"
    /\ \E loads \in BOOLEAN :
          LET file == IF use_segmentation THEN "yolov8n-seg.pt" ELSE "yolov8n.pt"
          IN  /\ tried' = <<Tried(file, loads)>>
              /\ IF loads
                 THEN /\ model' = file
                      /\ bldPc' = "run"
                      /\ UNCHANGED <<keep_out_mask, procPc, use_segmentation, results,
                                     idx, detect_mask>>
                 ELSE /\ DetectLeaves(None)
                      /\ UNCHANGED use_segmentation
    /\ UNCHANGED <<entry, toolVars, oldFile, mapFile, bitmap_bytes, encPc, encExc, verifyVars,
                   argVars, loopVars, pngFile, detections>>

Detect_LoadModel ==
    /\ bldPc = "load"
    /\ \E segLoads \in BOOLEAN, boxLoads \in BOOLEAN :
          IF use_segmentation /\ segLoads
          THEN /\ model' = "yolov8n-seg.pt"
               /\ tried' = <<Tried("yolov8n-seg.pt", TRUE)>>
               /\ bldPc' = "run"
               /\ UNCHANGED <<keep_out_mask, procPc, use_segmentation, results, idx,
                              detect_mask>>
          ELSE IF boxLoads
          THEN /\ model' = "yolov8n.pt"
               /\ tried' = (IF use_segmentation
                            THEN <<Tried("yolov8n-seg.pt", FALSE)>> ELSE <<>>)
                           \o <<Tried("yolov8n.pt", TRUE)>>
               /\ use_segmentation' = FALSE
               /\ bldPc' = "run"
               /\ UNCHANGED <<keep_out_mask, procPc, results, idx, detect_mask>>
          ELSE /\ DetectLeaves(None)
               /\ tried' = (IF use_segmentation
                            THEN <<Tried("yolov8n-seg.pt", FALSE)>> ELSE <<>>)
                           \o <<Tried("yolov8n.pt", FALSE)>>
               /\ use_segmentation' = FALSE
    /\ UNCHANGED <<entry, toolVars, oldFile, mapFile, bitmap_bytes, encPc, encExc, verifyVars,
                   argVars, loopVars, pngFile, detections>>

Detect_RunModel ==
    /\ bldPc = "run"
    /\ results' \in (IF model = "yolov8n-seg.pt" THEN SegResults(img) ELSE BoxResults(img))
    /\ detect_mask' = {}
    /\ detections' = 0
    /\ idx' = 0
    /\ bldPc' = "loop"
    /\ UNCHANGED <<entry, toolVars, codecVars, verifyVars, argVars, loopVars, procPc, pngFile,
                   use_segmentation, model, tried>>

SegBranch == use_segmentation /\ results.hasMasks

Detect_Mask ==
    /\ bldPc = "loop"
    /\ SegBranch
    /\ idx < Len(results.masks)
    /\ detect_mask' = MarkMask(detect_mask, results.masks[idx + 1], expand_margin,
                               img.w, img.h)
    /\ detections' = detections + 1
    /\ idx' = idx + 1
    /\ UNCHANGED <<entry, toolVars, codecVars, verifyVars, argVars, loopVars, procPc, pngFile,
                   use_segmentation, model, tried, results, bldPc>>

Detect_Box ==
    /\ bldPc = "loop"
    /\ ~SegBranch
    /\ idx < Len(results.boxes)
    /\ detect_mask' = MarkBox(detect_mask, results.boxes[idx + 1], expand_margin,
                              img.w, img.h)
    /\ detections' = detections + 1
    /\ idx' = idx + 1
    /\ UNCHANGED <<entry, toolVars, codecVars, verifyVars, argVars, loopVars, procPc, pngFile,
                   use_segmentation, model, tried, results, bldPc>>

LoopDone ==
    /\ bldPc = "loop"
    /\ idx = (IF SegBranch THEN Len(results.masks) ELSE Len(results.boxes))

Detect_Return ==
    /\ LoopDone
    /\ DetectLeaves(DetectReturn(detections, detect_mask, img.w, img.h))
    /\ UNCHANGED <<entry, toolVars, oldFile, mapFile, bitmap_bytes, encPc, encExc, verifyVars,
                   argVars, loopVars, pngFile, use_segmentation, tried, detections>>

detect_objects_yolo ==
    \/ Detect_CheckML
    \/ Detect_LoadModel
    \/ Detect_RunModel
    \/ Detect_Mask
    \/ Detect_Box
    \/ Detect_Return

----------------------------------------------------------------------------
(* convert_image_with_maps.py: the module-level check and process_image *)

Main_CheckML ==
    /\ procPc = "main"
    /\ procPc' = IF generate_maps /\ ~HAS_ML THEN "exited" ELSE "gather"
    /\ UNCHANGED <<entry, toolVars, codecVars, verifyVars, argVars, loopVars, pngFile, detectVars>>

Main_Gather ==
    /\ procPc = "gather"
    /\ procPc' = IF all_image_files = <<>> THEN "exited" ELSE "loop"
    /\ UNCHANGED <<entry, toolVars, codecVars, verifyVars, argVars, loopVars, pngFile, detectVars>>

(* The for loop takes the next file and calls process_image on it, or ends;
   the per-image variables then stand for the new call and the new file's
   output paths. *)
NextImage ==
    /\ procPc' = "process_image"
    /\ next_file' = next_file + 1
    /\ keep_out_mask' = None
    /\ oldFile' = NoFile
    /\ mapFile' = NoFile
    /\ bitmap_bytes' = <<>>
    /\ encPc' = "idle"
    /\ encExc' = "none"
    /\ pngFile' = FALSE
    /\ use_segmentation' = FALSE
    /\ model' = "none"
    /\ tried' = <<>>
    /\ results' = NoResults
    /\ idx' = 0
    /\ detect_mask' = {}
    /\ detections' = 0
    /\ bldPc' = "idle"

ProcessingComplete ==
    /\ procPc' = "complete"
    /\ UNCHANGED <<codecVars, next_file, pngFile, detectVars>>

Main_Loop_AbortOnError ==
    /\ procPc \in {"loop", "done", "failed"}
    /\ IF procPc # "failed" /\ next_file < Len(all_image_files)
       THEN NextImage
       ELSE ProcessingComplete
    /\ UNCHANGED <<entry, toolVars, verifyVars, argVars, attempted>>

Main_Loop ==
    /\ procPc \in {"loop", "done", "failed"}
    /\ IF next_file < Len(all_image_files)
       THEN NextImage
       ELSE ProcessingComplete
    /\ UNCHANGED <<entry, toolVars, verifyVars, argVars, attempted>>

image_file == all_image_files[next_file]

ProcessImage_Detect ==
    /\ procPc = "process_image"
    /\ attempted' = Append(attempted, next_file)
    /\ IF image_file = "open"
       THEN /\ procPc' = "failed"
            /\ UNCHANGED <<keep_out_mask, bldPc, use_segmentation>>
       ELSE /\ IF generate_maps
               THEN /\ procPc' = "detecting"
                    /\ bldPc' = "call"
                    /\ use_segmentation' = (map_method = "segmentation")
               ELSE /\ procPc' = "quantize"
                    /\ UNCHANGED <<bldPc, use_segmentation>>
            /\ keep_out_mask' = None
    /\ UNCHANGED <<entry, toolVars, oldFile, mapFile, bitmap_bytes, encPc, encExc, verifyVars,
                   argVars, next_file, pngFile, model, tried, results, idx, detect_mask,
                   detections>>

ProcessImage_SavePng ==
    /\ procPc = "quantize"
    /\ IF image_file = "save"
       THEN /\ procPc' = "failed"
            /\ UNCHANGED pngFile
       ELSE /\ pngFile' = TRUE
            /\ procPc' = "png_saved"
    /\ UNCHANGED <<entry, toolVars, codecVars, verifyVars, argVars, loopVars, detectVars>>

ProcessImage_SaveMap ==
    /\ procPc = "png_saved"
    /\ IF ~keep_out_mask.isNone
       THEN /\ encPc' = "call"
            /\ procPc' = "saving_map"
       ELSE /\ procPc' = "done"
            /\ UNCHANGED encPc
    /\ UNCHANGED <<entry, toolVars, keep_out_mask, oldFile, mapFile, bitmap_bytes, encExc,
                   verifyVars, argVars, loopVars, pngFile, detectVars>>

ProcessImage_Return ==
    /\ procPc = "saving_map"
    /\ EncoderLeft
    /\ procPc' = IF encPc = "raised" THEN "failed" ELSE "done"
    /\ UNCHANGED <<entry, toolVars, codecVars, verifyVars, argVars, loopVars, pngFile, detectVars>>

process_image ==
    \/ ProcessImage_Detect
    \/ detect_objects_yolo
    \/ ProcessImage_SavePng
    \/ ProcessImage_SaveMap
    \/ ProcessImage_Return

----------------------------------------------------------------------------
(* convert_image_with_maps.py: palette and closest_palette_color.  Distances
   are exact: rgb_dist is counted in units of 0.75/(20*255^2), luma in units
   of 1/(20*255), total_dist in units of 0.00075/255^2; the rounding of the
   float arithmetic is not modelled. *)

PALETTE_COLORS ==
    << <<0, 0, 0>>, <<255, 255, 255>>, <<255, 255, 0>>,
       <<255, 0, 0>>, <<0, 0, 255>>, <<0, 255, 0>> >>

Luma(c) == 5 * c[1] + 7 * c[2] + 8 * c[3]

RgbDist(c, p) ==
    LET diffR == c[1] - p[1]
        diffG == c[2] - p[2]
        diffB == c[3] - p[3]
    IN  diffR * diffR * 5 + diffG * diffG * 7 + diffB * diffB * 8

LumaDist(c, p) ==
    LET luma_diff == Luma(c) - Luma(p)
    IN  luma_diff * luma_diff

TotalDist(c) ==
    [i \in 1 .. Len(PALETTE_COLORS) |->
        75 * RgbDist(c, PALETTE_COLORS[i]) + 2 * LumaDist(c, PALETTE_COLORS[i])]

(* np.argmin: the 0-based position of the first smallest element *)
RECURSIVE ArgMaxFrom(_, _, _)
ArgMaxFrom(d, i, best) ==
    IF i > Len(d) THEN best - 1
    ELSE ArgMaxFrom(d, i + 1, IF d[i] > d[best] THEN i ELSE best)

RECURSIVE ArgMinLastFrom(_, _, _)
ArgMinLastFrom(d, i, best) ==
    IF i > Len(d) THEN best - 1
    ELSE ArgMinLastFrom(d, i + 1, IF d[i] <= d[best] THEN i ELSE best)

RECURSIVE ArgMinFrom(_, _, _)
ArgMinFrom(d, i, best) ==
    IF i > Len(d) THEN best - 1
    ELSE ArgMinFrom(d, i + 1, IF d[i] < d[best] THEN i ELSE best)

ArgMax(d) == ArgMaxFrom(d, 2, 1)
ArgMin_Last(d) == ArgMinLastFrom(d, 2, 1)
ArgMin(d) == ArgMinFrom(d, 2, 1)

closest_palette_color(c) == ArgMin(TotalDist(c))

ClosestPaletteColor ==
    /\ palPc = "call"
    /\ closest' = closest_palette_color(rgb)
    /\ palPc' = "returned"
    /\ UNCHANGED <<entry, tanmatsuVars, codecVars, verifyVars, buildVars, rgb, spectraVars,
                   analysis, atkVars>>

----------------------------------------------------------------------------
(* convert_image_with_maps.py: quantize_atkinson.  A float32 channel value v
   is held as the integer v * Scale; every value the loops produce on the
   images of the model is a multiple of 1/Scale, so the shares are exact. *)

Scale == 8 ^ 4

Clip(v, lo, hi) == Max(lo, Min(hi, v))
Scaled(c) == [k \in 1 .. 3 |-> c[k] * Scale]

(* tuple(np.clip(old_pixel, 0, 255).astype(int)) *)
ClippedInt(px) == [k \in 1 .. 3 |-> Clip(px[k], 0, 255 * Scale) \div Scale]

Eighth(e) == [k \in 1 .. 3 |-> e[k] \div 8]
Quarter_AsEighth(e) == [k \in 1 .. 3 |-> e[k] \div 8]
Quarter(e) == [k \in 1 .. 3 |-> e[k] \div 4]

(* Share without the x - 1 >= 0 guard: the index -1 addresses the last
   column, as a negative numpy index does *)
Share_Wraparound(p, x, y, e, width, height) ==
    LET dl == IF x - 1 >= 0 THEN <<x - 1, y + 1>> ELSE <<width - 1, y + 1>>
        n == (IF p = <<x + 1, y>> /\ x + 1 < width THEN 1 ELSE 0)
             + (IF p = dl /\ y + 1 < height THEN 1 ELSE 0)
             + (IF p = <<x, y + 1>> /\ y + 1 < height THEN 2 ELSE 0)
             + (IF p = <<x + 1, y + 1>> /\ y + 1 < height /\ x + 1 < width THEN 1 ELSE 0)
    IN  [k \in 1 .. 3 |-> n * (e[k] \div 8)]

(* The share of the right-hand neighbour sent to the left-hand one *)
Share_Backwards(p, x, y, e, width, height) ==
    IF p = <<x - 1, y>> /\ x - 1 >= 0 THEN Eighth(e)
    ELSE IF p = <<x, y + 1>> /\ y + 1 < height THEN Quarter(e)
    ELSE <<0, 0, 0>>

(* What the four guarded += statements add to pixel p when the pixel at
   (x, y) has the error e *)
Share(p, x, y, e, width, height) ==
    IF p = <<x + 1, y>> /\ x + 1 < width THEN Eighth(e)
    ELSE IF p = <<x - 1, y + 1>> /\ y + 1 < height /\ x - 1 >= 0 THEN Eighth(e)
    ELSE IF p = <<x, y + 1>> /\ y + 1 < height THEN Quarter(e)
    ELSE IF p = <<x + 1, y + 1>> /\ y + 1 < height /\ x + 1 < width THEN Eighth(e)
    ELSE <<0, 0, 0>>

Atkinson_Pixel ==
    /\ atkPc = "loop"
    /\ visited < working_img.w * working_img.h
    /\ LET x == visited % working_img.w
           y == visited \div working_img.w
           old_pixel == working_img.px[<<x, y>>]
           nearest == closest_palette_color(ClippedInt(old_pixel))
           new_pixel == Scaled(PALETTE_COLORS[nearest + 1])
           err == [k \in 1 .. 3 |-> old_pixel[k] - new_pixel[k]]
       IN  /\ error' = err
           /\ working_img' =
                 [working_img EXCEPT !.px =
                     [p \in DOMAIN working_img.px |->
                         IF p = <<x, y>> THEN new_pixel
                         ELSE LET add == Share(p, x, y, err, working_img.w, working_img.h)
                              IN  [k \in 1 .. 3 |-> working_img.px[p][k] + add[k]]]]
    /\ visited' = visited + 1
    /\ UNCHANGED <<entry, tanmatsuVars, codecVars, verifyVars, buildVars, paletteVars,
                   spectraVars, analysis, quantized_array, atkPc>>

Atkinson_Return ==
    /\ atkPc = "loop"
    /\ visited = working_img.w * working_img.h
    /\ quantized_array' =
          Image(working_img.w, working_img.h,
                [p \in DOMAIN working_img.px |-> ClippedInt(working_img.px[p])])
    /\ atkPc' = "returned"
    /\ UNCHANGED <<entry, tanmatsuVars, codecVars, verifyVars, buildVars, paletteVars,
                   spectraVars, analysis, working_img, visited, error>>

quantize_atkinson == Atkinson_Pixel \/ Atkinson_Return

----------------------------------------------------------------------------
(* prepare_eink_image.py: the Spectra palette and map_to_spectra *)

SPECTRA_PALETTE ==
    << <<10, 10, 10>>, <<245, 245, 235>>, <<245, 210, 50>>,
       <<190, 60, 55>>, <<45, 75, 160>>, <<55, 140, 85>> >>

SPECTRA_CODES_Positions == <<0, 1, 2, 3, 4, 5>>
SPECTRA_CODES == <<0, 1, 2, 3, 5, 6>>

(* rgb_to_lab at the colours the model uses, <<L, a, b>> in hundredths *)
rgb_to_lab(c) ==
    CASE c = <<10, 10, 10>> -> <<274, 0, 0>>
      [] c = <<245, 245, 235>> -> <<9629, -173, 481>>
      [] c = <<245, 210, 50>> -> <<8486, -280, 7676>>
      [] c = <<190, 60, 55>> -> <<4488, 5159, 3257>>
      [] c = <<45, 75, 160>> -> <<3425, 1900, -4945>>
      [] c = <<55, 140, 85>> -> <<5209, -3859, 2195>>
      [] c = <<0, 0, 0>> -> <<0, 0, 0>>
      [] c = <<255, 255, 255>> -> <<10000, 0, 0>>
      [] c = <<0, 0, 255>> -> <<3230, 7919, -10786>>
      [] c = <<0, 255, 0>> -> <<8773, -8618, 8318>>

(* CIE76: the squared Euclidean distance in Lab space to each palette entry *)
LabDistances(c) ==
    [i \in 1 .. Len(SPECTRA_PALETTE) |->
        LET d == [k \in 1 .. 3 |-> rgb_to_lab(c)[k] - rgb_to_lab(SPECTRA_PALETTE[i])[k]]
        IN  d[1] * d[1] + d[2] * d[2] + d[3] * d[3]]

map_to_spectra(im) ==
    LET closest_indices == [p \in Pixels(im.w, im.h) |-> ArgMin(LabDistances(im.px[p]))]
    IN  Image(im.w, im.h,
              [p \in Pixels(im.w, im.h) |-> SPECTRA_CODES[closest_indices[p] + 1]])

MapToSpectra ==
    /\ mapPc = "call"
    /\ mapped' = map_to_spectra(img_array)
    /\ mapPc' = "returned"
    /\ UNCHANGED <<entry, tanmatsuVars, codecVars, verifyVars, buildVars, paletteVars,
                   img_array, analysis, atkVars>>

----------------------------------------------------------------------------
(* tanmatsu.py: KeyboardState.  raw is the 9 bytes read from REG_KEYBOARD_0;
   the model presses only the keys of KeyBits, so every other bit is 0. *)

KeyBits ==
    [k \in {"1", "shift_l", "c", "ctrl", "alt_l", "v"} |->
        CASE k = "1" -> <<0, 32>>
          [] k = "shift_l" -> <<2, 1>>
          [] k = "c" -> <<2, 8>>
          [] k = "ctrl" -> <<2, 16>>
          [] k = "alt_l" -> <<2, 64>>
          [] k = "v" -> <<4, 16>>]

(* bool(byteN & mask) of _parse_keys *)
KeyPressed(raw, k) == (raw[KeyBits[k][1] + 1] \div KeyBits[k][2]) % 2 = 1

(* The bytes the coprocessor reports while the keys of S are down *)
RawOf(S) ==
    LET bit(k) == IF k \in S THEN KeyBits[k][2] ELSE 0
    IN  <<bit("1"), 0, bit("shift_l") + bit("c") + bit("ctrl") + bit("alt_l"), 0,
          bit("v"), 0, 0, 0, 0>>

KeyboardRaws == {RawOf(S) : S \in SUBSET DOMAIN KeyBits}

----------------------------------------------------------------------------
(* tanmatsu.py: the register functions of Coprocessor and ES8156 on the
   shared busio.I2C object.  The clock is abstracted to the outcome of the
   test time.monotonic() - start > timeout, which a sleep may turn true. *)

CopRead == "Coprocessor._read_register"
CopWrite == "Coprocessor._write_register"
EsRead == "ES8156._read_register_direct"
EsWrite == "ES8156._write_register_direct"
RegisterFunctions == {CopRead, CopWrite, EsRead, EsWrite}

imageVars ==
    <<codecVars, verifyVars, buildVars, paletteVars, spectraVars, analysis, atkVars>>

IsByte(v) == 0 <= v /\ v <= 255

(* The value arguments of the model: two bytes and an int bytes([v])
   rejects; for Coprocessor._read_register the length argument *)
RegisterValues(op) ==
    IF op \in {CopWrite, EsWrite} THEN {0, 255, 256}
    ELSE IF op = CopRead THEN {2, 9}
    ELSE {0}

(* What a read can return: the 9 keyboard bytes, the 2 version bytes, one
   codec register byte *)
ReadData(op, v) ==
    IF op = CopRead THEN (IF v = 9 THEN KeyboardRaws ELSE {<<1, 0>>})
    ELSE IF op = EsRead THEN {<<0>>, <<86>>}
    ELSE {<<>>}

(* busio.I2C.unlock() *)
Unlock(lock) == "free"

(* The statements before the lock loop, lines 270-273 and 296-305:
   bytes([value]) of Coprocessor._write_register raises ValueError there *)
CallRegister(op, v) ==
    /\ regOp' = op
    /\ reg_value' = v
    /\ expired' = FALSE
    /\ acquired' = FALSE
    /\ unlock_calls' = 0
    /\ IF op = CopWrite /\ ~IsByte(v)
       THEN regPc' = "raised" /\ regExc' = "ValueError"
       ELSE regPc' = "try_lock" /\ regExc' = "none"
    /\ UNCHANGED <<bus_lock, buffer>>

(* while not self.i2c.try_lock(): if ... > timeout: raise RuntimeError *)
I2C_TryLock ==
    /\ regPc = "try_lock"
    /\ IF bus_lock = "free"
       THEN /\ bus_lock' = "driver"
            /\ acquired' = TRUE
            /\ regPc' = "transfer"
            /\ UNCHANGED regExc
       ELSE /\ IF expired
               THEN regPc' = "raised" /\ regExc' = "RuntimeError"
               ELSE regPc' = "sleep" /\ UNCHANGED regExc
            /\ UNCHANGED <<bus_lock, acquired>>
    /\ UNCHANGED <<entry, imageVars, regOp, reg_value, expired, unlock_calls, buffer,
                   transfers, kbVars>>

(* time.sleep(0.001) *)
I2C_Sleep ==
    /\ regPc = "sleep"
    /\ expired' \in {expired, TRUE}
    /\ regPc' = "try_lock"
    /\ UNCHANGED <<entry, imageVars, bus_lock, regOp, reg_value, regExc, acquired,
                   unlock_calls, buffer, transfers, kbVars>>

(* bytes([register, value]) of ES8156._write_register_direct is evaluated
   inside the try *)
TransferOutcomes(op, v) ==
    IF op = EsWrite /\ ~IsByte(v) THEN {"ValueError"} ELSE {"ok", "OSError"}

(* The try block with a failed transfer leaving the lock held *)
I2C_Transfer_LeakOnError ==
    /\ regPc = "transfer"
    /\ \E outcome \in TransferOutcomes(regOp, reg_value), data \in ReadData(regOp, reg_value) :
          /\ transfers' = transfers + (IF outcome = "ValueError" THEN 0 ELSE 1)
          /\ IF outcome = "ok"
             THEN /\ bus_lock' = Unlock(bus_lock)
                  /\ unlock_calls' = unlock_calls + 1
                  /\ regPc' = "returned"
                  /\ buffer' = data
                  /\ UNCHANGED regExc
             ELSE /\ regPc' = "raised"
                  /\ regExc' = "RuntimeError"
                  /\ UNCHANGED <<bus_lock, unlock_calls, buffer>>
    /\ UNCHANGED <<entry, imageVars, regOp, reg_value, expired, acquired, kbVars>>

(* The try block and the unlock after it: the transfer, then unlock and
   return, or unlock and raise RuntimeError from the except clause *)
I2C_Transfer ==
    /\ regPc = "transfer"
    /\ \E outcome \in TransferOutcomes(regOp, reg_value), data \in ReadData(regOp, reg_value) :
          /\ transfers' = transfers + (IF outcome = "ValueError" THEN 0 ELSE 1)
          /\ bus_lock' = Unlock(bus_lock)
          /\ unlock_calls' = unlock_calls + 1
          /\ IF outcome = "ok"
             THEN /\ regPc' = "returned"
                  /\ buffer' = data
                  /\ UNCHANGED regExc
             ELSE /\ regPc' = "raised"
                  /\ regExc' = "RuntimeError"
                  /\ UNCHANGED buffer
    /\ UNCHANGED <<entry, imageVars, regOp, reg_value, expired, acquired, kbVars>>

RegisterLeft == regPc \in {"idle", "returned", "raised"}

(* Another user of the bus (the display, user code) takes or frees the lock *)
Bus_OtherLock ==
    /\ entry \in {"tanmatsu_i2c", "tanmatsu_keyboard"}
    /\ bus_lock = "free"
    /\ bus_lock' = "other"
    /\ UNCHANGED <<entry, imageVars, regOp, reg_value, regPc, regExc, expired, acquired,
                   unlock_calls, buffer, transfers, kbVars>>

Bus_OtherUnlock ==
    /\ entry \in {"tanmatsu_i2c", "tanmatsu_keyboard"}
    /\ bus_lock = "other"
    /\ bus_lock' = "free"
    /\ UNCHANGED <<entry, imageVars, regOp, reg_value, regPc, regExc, expired, acquired,
                   unlock_calls, buffer, transfers, kbVars>>

(* A register function called on its own *)
Register_Call ==
    /\ entry = "tanmatsu_i2c"
    /\ RegisterLeft
    /\ \E op \in RegisterFunctions : \E v \in RegisterValues(op) : CallRegister(op, v)
    /\ transfers' = 0
    /\ UNCHANGED <<entry, imageVars, kbVars>>

register_functions == I2C_TryLock \/ I2C_Sleep \/ I2C_Transfer

----------------------------------------------------------------------------
(* tanmatsu.py: inject_keyboard_to_stdin.  Characters are code points; the
   keymap holds, in the dict's order, the keys of KeyBits that it maps. *)

TANMATSU_KEYMAP ==
    << [key |-> "1", normal |-> 49, shift |-> 33],
       [key |-> "c", normal |-> 99, shift |-> 67],
       [key |-> "v", normal |-> 118, shift |-> 86] >>

WriteChar(c, k) == [fn |-> "write_char", data |-> c, key |-> k]
WriteString(c, k) == [fn |-> "write_string", data |-> c, key |-> k]

shift_pressed(new_state) == KeyPressed(new_state, "shift_l")
ctrl_pressed(new_state) == KeyPressed(new_state, "ctrl")
alt_pressed(new_state) == KeyPressed(new_state, "alt_l")

(* shift_char if shift_pressed else normal_char, then the Ctrl conversion
   of a lower-case letter *)
CharToSend(k, new_state) ==
    LET char == IF shift_pressed(new_state) THEN k.shift ELSE k.normal
    IN  IF ctrl_pressed(new_state) /\ 97 <= char /\ char <= 122
        THEN char - 97 + 1
        ELSE char

Duplicate_Never(n) == FALSE
(* if _chars_injected == 1 *)
Duplicate(n) == n = 1

(* The for loop over the keymap from its i-th key on, with _chars_injected
   at n: the writes made and the counter afterwards *)
RECURSIVE InjectLoop(_, _, _, _)
InjectLoop(i, prev, new_state, n) ==
    IF i > Len(TANMATSU_KEYMAP) THEN [writes |-> <<>>, chars |-> n]
    ELSE LET k == TANMATSU_KEYMAP[i]
             is_pressed_now == KeyPressed(new_state, k.key)
             was_pressed_before == IF prev # <<>> THEN KeyPressed(prev, k.key) ELSE FALSE
         IN  IF ~(is_pressed_now /\ ~was_pressed_before)
             THEN InjectLoop(i + 1, prev, new_state, n)
             ELSE IF ctrl_pressed(new_state) /\ k.key = "c"
             THEN LET rest == InjectLoop(i + 1, prev, new_state, n)
                  IN  [writes |-> <<WriteChar(3, k.key)>> \o rest.writes,
                       chars |-> rest.chars]
             ELSE LET char_to_send == CharToSend(k, new_state)
                  IN  [writes |->
                          (IF alt_pressed(new_state) THEN <<WriteChar(27, k.key)>> ELSE <<>>)
                          \o <<WriteString(char_to_send, k.key)>>
                          \o (IF Duplicate(n + 1)
                              THEN <<WriteString(char_to_send, k.key)>> ELSE <<>>),
                       chars |-> n + 1]

(* The body after coprocessor.get_keyboard_state() returned new_state *)
inject_keyboard_to_stdin(prev, new_state, n) ==
    LET changed == prev = <<>> \/ new_state # prev
    IN  IF ~changed THEN [changed |-> "False", writes |-> <<>>, chars |-> n]
        ELSE LET loop == InjectLoop(1, prev, new_state, n)
             IN  [changed |-> "True", writes |-> loop.writes, chars |-> loop.chars]

----------------------------------------------------------------------------
(* tanmatsu.py: start_auto_keyboard, _auto_poll_keyboard, poll_keyboard,
   stop_auto_keyboard.  A handler runs from its call to its return; its
   keyboard read goes through Coprocessor._read_register. *)

Running(fn) == [fn |-> fn, value |-> "running", changed |-> "none"]
Returned(fn, v, c) == [fn |-> fn, value |-> v, changed |-> c]

KbIdle == entry = "tanmatsu_keyboard" /\ kbPc = "idle"

(* The model stops injecting when the counter has reached its bound *)
CanInject == _chars_injected < MaxChars

(* The register function's frame is gone once its caller has its result *)
RegisterDone ==
    /\ regOp' = "none"
    /\ reg_value' = 0
    /\ regPc' = "idle"
    /\ regExc' = "none"
    /\ expired' = FALSE
    /\ acquired' = FALSE
    /\ unlock_calls' = 0
    /\ buffer' = <<>>
    /\ UNCHANGED <<bus_lock, transfers>>

(* get_keyboard_state: self._read_register(REG_KEYBOARD_0, 9) *)
GetKeyboardState == CallRegister(CopRead, 9) /\ transfers' = 0

(* Coprocessor(i2c): get_firmware_version reads 2 bytes *)
Start_Call ==
    /\ KbIdle
    /\ written' = <<>>
    /\ returned' = Running("start_auto_keyboard")
    /\ \E coprocessor \in {"None", "Coprocessor"} :
          IF coprocessor = "None"
          THEN /\ CallRegister(CopRead, 2)
               /\ transfers' = 0
               /\ kbPc' = "start_construct"
               /\ UNCHANGED <<_auto_poll_coprocessor, _auto_poll_prev_state,
                              _auto_poll_active, _chars_injected>>
          ELSE /\ _auto_poll_coprocessor' = TRUE
               /\ _auto_poll_prev_state' = <<>>
               /\ _auto_poll_active' = TRUE
               /\ _chars_injected' = 0
               /\ GetKeyboardState
               /\ kbPc' = "start_read"
    /\ UNCHANGED <<entry, imageVars, previous_state>>

Start_Constructed ==
    /\ kbPc = "start_construct"
    /\ RegisterLeft
    /\ IF regPc = "raised"
       THEN /\ returned' = Returned("start_auto_keyboard", "RuntimeError", "none")
            /\ kbPc' = "idle"
            /\ RegisterDone
            /\ UNCHANGED <<_auto_poll_coprocessor, _auto_poll_prev_state,
                           _auto_poll_active, _chars_injected>>
       ELSE /\ _auto_poll_coprocessor' = TRUE
            /\ _auto_poll_prev_state' = <<>>
            /\ _auto_poll_active' = TRUE
            /\ _chars_injected' = 0
            /\ GetKeyboardState
            /\ kbPc' = "start_read"
            /\ UNCHANGED returned
    /\ UNCHANGED <<entry, imageVars, previous_state, written>>

(* The test read, then tanmatsu_keyboard.set_poll_callback, which may raise *)
Start_TestRead ==
    /\ kbPc = "start_read"
    /\ RegisterLeft
    /\ IF regPc = "raised"
       THEN /\ _auto_poll_active' = FALSE
            /\ UNCHANGED _auto_poll_prev_state
       ELSE /\ _auto_poll_prev_state' = buffer
            /\ \E callback_set \in BOOLEAN :
                  _auto_poll_active' = (IF callback_set THEN _auto_poll_active ELSE FALSE)
    /\ returned' = Returned("start_auto_keyboard", "coprocessor", "none")
    /\ kbPc' = "idle"
    /\ RegisterDone
    /\ UNCHANGED <<entry, imageVars, _auto_poll_coprocessor, _chars_injected,
                   previous_state, written>>

start_auto_keyboard == Start_Call \/ Start_Constructed \/ Start_TestRead

(* The early returns of a poll, or its call of inject_keyboard_to_stdin *)
PollCall(fn, pc) ==
    /\ KbIdle
    /\ written' = <<>>
    /\ ~_auto_poll_active \/ ~_auto_poll_coprocessor \/ CanInject
    /\ IF ~_auto_poll_active \/ ~_auto_poll_coprocessor
       THEN /\ returned' = Returned(fn, "None", "none")
            /\ transfers' = 0
            /\ UNCHANGED <<bus_lock, regOp, reg_value, regPc, regExc, expired, acquired,
                           unlock_calls, buffer, kbPc, previous_state>>
       ELSE /\ returned' = Running(fn)
            /\ previous_state' = _auto_poll_prev_state
            /\ GetKeyboardState
            /\ kbPc' = pc
    /\ UNCHANGED <<entry, imageVars, _auto_poll_coprocessor, _auto_poll_prev_state,
                   _auto_poll_active, _chars_injected>>

(* The except clauses of a poll that leave _auto_poll_active alone *)
PollReturn_StayActive(fn, pc) ==
    /\ kbPc = pc
    /\ RegisterLeft
    /\ IF regPc = "raised"
       THEN /\ returned' = Returned(fn, "None", "none")
            /\ UNCHANGED <<_auto_poll_active, _auto_poll_prev_state, _chars_injected,
                           written>>
       ELSE LET r == inject_keyboard_to_stdin(previous_state, buffer, _chars_injected)
            IN  /\ written' = r.writes
                /\ _chars_injected' = r.chars
                /\ _auto_poll_prev_state' = buffer
                /\ returned' = Returned(fn, "None", r.changed)
                /\ UNCHANGED _auto_poll_active
    /\ previous_state' = <<>>
    /\ kbPc' = "idle"
    /\ RegisterDone
    /\ UNCHANGED <<entry, imageVars, _auto_poll_coprocessor>>

(* inject_keyboard_to_stdin returned or raised inside the poll's try *)
PollReturn(fn, pc) ==
    /\ kbPc = pc
    /\ RegisterLeft
    /\ IF regPc = "raised"
       THEN /\ _auto_poll_active' = FALSE
            /\ returned' = Returned(fn, "None", "none")
            /\ UNCHANGED <<_auto_poll_prev_state, _chars_injected, written>>
       ELSE LET r == inject_keyboard_to_stdin(previous_state, buffer, _chars_injected)
            IN  /\ written' = r.writes
                /\ _chars_injected' = r.chars
                /\ _auto_poll_prev_state' = buffer
                /\ returned' = Returned(fn, "None", r.changed)
                /\ UNCHANGED _auto_poll_active
    /\ previous_state' = <<>>
    /\ kbPc' = "idle"
    /\ RegisterDone
    /\ UNCHANGED <<entry, imageVars, _auto_poll_coprocessor>>

AutoPoll_Call == PollCall("_auto_poll_keyboard", "auto_read")
AutoPoll_Return == PollReturn("_auto_poll_keyboard", "auto_read")
_auto_poll_keyboard == AutoPoll_Call \/ AutoPoll_Return

Poll_Call == PollCall("poll_keyboard", "poll_read")
Poll_Return == PollReturn("poll_keyboard", "poll_read")
poll_keyboard == Poll_Call \/ Poll_Return

(* _auto_poll_active = False, then set_poll_callback(None), which may raise *)
stop_auto_keyboard ==
    /\ KbIdle
    /\ _auto_poll_active' = FALSE
    /\ written' = <<>>
    /\ transfers' = 0
    /\ \E raised \in {"None", "Exception"} :
          returned' = Returned("stop_auto_keyboard", raised, "none")
    /\ UNCHANGED <<entry, imageVars, bus_lock, regOp, reg_value, regPc, regExc, expired,
                   acquired, unlock_calls, buffer, _auto_poll_coprocessor,
                   _auto_poll_prev_state, _chars_injected, kbPc, previous_state>>

(* inject_keyboard_to_stdin called by a program of its own, with no
   previous state or with the state the polls keep *)
Inject_Call ==
    /\ KbIdle
    /\ CanInject
    /\ written' = <<>>
    /\ returned' = Running("inject_keyboard_to_stdin")
    /\ previous_state' \in {<<>>, _auto_poll_prev_state}
    /\ GetKeyboardState
    /\ kbPc' = "inject_read"
    /\ UNCHANGED <<entry, imageVars, _auto_poll_coprocessor, _auto_poll_prev_state,
                   _auto_poll_active, _chars_injected>>

Inject_Return ==
    /\ kbPc = "inject_read"
    /\ RegisterLeft
    /\ IF regPc = "raised"
       THEN /\ returned' = Returned("inject_keyboard_to_stdin", "RuntimeError", "none")
            /\ UNCHANGED <<_chars_injected, written>>
       ELSE LET r == inject_keyboard_to_stdin(previous_state, buffer, _chars_injected)
            IN  /\ written' = r.writes
                /\ _chars_injected' = r.chars
                /\ returned' = Returned("inject_keyboard_to_stdin", "state", r.changed)
    /\ previous_state' = <<>>
    /\ kbPc' = "idle"
    /\ RegisterDone
    /\ UNCHANGED <<entry, imageVars, _auto_poll_coprocessor,
                   _auto_poll_prev_state, _auto_poll_active>>

inject_call == Inject_Call \/ Inject_Return

----------------------------------------------------------------------------
(* Specifications *)

InitCodecIdle ==
    /\ keep_out_mask = None
    /\ oldFile = NoFile
    /\ mapFile = NoFile
    /\ bitmap_bytes = <<>>
    /\ encPc = "idle"
    /\ encExc = "none"

InitPaletteIdle ==
    /\ rgb = <<0, 0, 0>>
    /\ closest = 0
    /\ palPc = "idle"

InitSpectraIdle ==
    /\ img_array = NoImage
    /\ mapped = NoImage
    /\ mapPc = "idle"

InitAtkinsonIdle ==
    /\ working_img = NoImage
    /\ visited = 0
    /\ error = <<0, 0, 0>>
    /\ quantized_array = NoImage
    /\ atkPc = "idle"

InitI2CIdle ==
    /\ bus_lock = "free"
    /\ regOp = "none"
    /\ reg_value = 0
    /\ regPc = "idle"
    /\ regExc = "none"
    /\ expired = FALSE
    /\ acquired = FALSE
    /\ unlock_calls = 0
    /\ buffer = <<>>
    /\ transfers = 0

InitKeyboardIdle ==
    /\ _auto_poll_coprocessor = FALSE
    /\ _auto_poll_prev_state = <<>>
    /\ _auto_poll_active = FALSE
    /\ _chars_injected = 0
    /\ kbPc = "idle"
    /\ previous_state = <<>>
    /\ written = <<>>
    /\ returned = Returned("none", "none", "none")

InitTanmatsuIdle == InitI2CIdle /\ InitKeyboardIdle

InitToolsIdle ==
    /\ InitPaletteIdle
    /\ InitSpectraIdle
    /\ analysis = NoAnalysis
    /\ InitAtkinsonIdle
    /\ InitTanmatsuIdle

InitVerifyVars ==
    /\ map_data = Unread
    /\ bitmap = {}
    /\ decPc = "idle"
    /\ refBitmap = {}
    /\ tampers = 0

InitBuildIdle ==
    /\ img = [w |-> 0, h |-> 0]
    /\ HAS_ML = FALSE
    /\ generate_maps = FALSE
    /\ map_method = "boxes"
    /\ expand_margin = 0
    /\ all_image_files = <<>>
    /\ next_file = 0
    /\ attempted = <<>>
    /\ procPc = "idle"
    /\ pngFile = FALSE
    /\ use_segmentation = FALSE
    /\ model = "none"
    /\ tried = <<>>
    /\ results = NoResults
    /\ idx = 0
    /\ detect_mask = {}
    /\ detections = 0
    /\ bldPc = "idle"

(* save_keepout_map called on a mask, then verify_map_file on its output *)
InitCodec ==
    /\ entry = "save_keepout_map"
    /\ keep_out_mask \in MaskInputs \cup {None}
    /\ oldFile \in {NoFile, File(StaleMap)}
    /\ mapFile = oldFile
    /\ bitmap_bytes = <<>>
    /\ encPc = "call"
    /\ encExc = "none"
    /\ InitVerifyVars
    /\ InitToolsIdle
    /\ InitBuildIdle

NextCodec == save_keepout_map \/ ReadMapFile \/ DecodeBitmap

SpecCodec == InitCodec /\ [][NextCodec]_vars

(* save_keepout_map called on a mask that fits the header, then
   verify_map_file on its output *)
InitPacking ==
    /\ entry = "save_keepout_map"
    /\ keep_out_mask \in PackingInputs
    /\ oldFile = NoFile
    /\ mapFile = oldFile
    /\ bitmap_bytes = <<>>
    /\ encPc = "call"
    /\ encExc = "none"
    /\ InitVerifyVars
    /\ InitToolsIdle
    /\ InitBuildIdle

SpecPacking == InitPacking /\ [][NextCodec]_vars

(* verify_map_file run on an arbitrary byte stream *)
Headers ==
    {m \o <<v>> \o StructPackH(w) \o StructPackH(h) \o Repeat(0, 6) :
        m \in {MAGIC, XOMAP}, v \in {0, 1, 2}, w \in 0 .. MaxVW, h \in 0 .. MaxVH}

Streams ==
    {hd \o d : hd \in Headers, d \in SeqsUpTo(MaxStream, BytePool)}
    \cup {SubSeq(hd, 1, n) : hd \in Headers, n \in 0 .. (HeaderSize - 1)}

InitVerify ==
    /\ entry = "verify_map_file"
    /\ keep_out_mask = None
    /\ mapFile \in {File(s) : s \in Streams}
    /\ oldFile = mapFile
    /\ bitmap_bytes = <<>>
    /\ encPc = "idle"
    /\ encExc = "none"
    /\ InitVerifyVars
    /\ InitToolsIdle
    /\ InitBuildIdle

NextVerify == ReadMapFile \/ DecodeBitmap \/ AppendExtra \/ ChangePadding

SpecVerify == InitVerify /\ [][NextVerify]_vars


(* convert_image_with_maps.py run on one image, or save_keepout_map called
   with the None the builder returns *)
InitRun(images, lists) ==
    /\ entry = "process_image"
    /\ img \in images
    /\ all_image_files \in lists
    /\ next_file = 0
    /\ attempted = <<>>
    /\ HAS_ML \in BOOLEAN
    /\ generate_maps \in BOOLEAN
    /\ map_method \in {"segmentation", "boxes"}
    /\ expand_margin \in Margins(img)
    /\ procPc = "main"
    /\ pngFile = FALSE
    /\ use_segmentation = FALSE
    /\ model = "none"
    /\ tried = <<>>
    /\ results = NoResults
    /\ idx = 0
    /\ detect_mask = {}
    /\ detections = 0
    /\ bldPc = "idle"
    /\ keep_out_mask = None
    /\ oldFile = NoFile
    /\ mapFile = oldFile
    /\ bitmap_bytes = <<>>
    /\ encPc = "idle"
    /\ encExc = "none"
    /\ InitVerifyVars
    /\ InitToolsIdle

InitProcessImage == InitRun(Images, {<<"never">>})

InitSaveNone ==
    /\ entry = "save_keepout_map"
    /\ keep_out_mask = None
    /\ oldFile \in {NoFile, File(StaleMap)}
    /\ mapFile = oldFile
    /\ bitmap_bytes = <<>>
    /\ encPc = "call"
    /\ encExc = "none"
    /\ InitVerifyVars
    /\ InitToolsIdle
    /\ InitBuildIdle

InitPipeline == InitProcessImage \/ InitSaveNone

NextPipeline ==
    \/ Main_CheckML
    \/ Main_Gather
    \/ Main_Loop
    \/ process_image
    \/ save_keepout_map

SpecPipeline == InitPipeline /\ [][NextPipeline]_vars

(* convert_image_with_maps.py run on a list of files, some of which raise;
   the interpreter always takes the program's next step *)
InitBatch == InitRun({TinyImage}, SeqsUpTo(MaxFiles, Raises))

SpecBatch == InitBatch /\ [][NextPipeline]_vars /\ WF_vars(NextPipeline)

----------------------------------------------------------------------------
(* Keep-out codec: save_keepout_map against read_map_file / decode_bitmap *)

Encoded == encPc = "returned" /\ ~keep_out_mask.isNone

ExpectedBitmapSize(w, h) == (w * h + 7) \div 8

(* C1: decoding the bytes the encoder wrote for a mask m yields exactly m,
   pixel (x, y) is keep-out in the decoded mask iff it is keep-out in m,
   for every width and height >= 1. *)
C1_RoundTrip ==
    (Encoded /\ decPc = "decoded") => bitmap = keep_out_mask.px

(* C2: the byte sequence written for a mask of width w and height h has
   length exactly 16 + ceil(w*h/8). *)
C2_FileSizeLaw ==
    Encoded =>
        Len(mapFile.data)
            = HeaderSize + ExpectedBitmapSize(keep_out_mask.w, keep_out_mask.h)

(* C3: read_map_file on any byte stream either returns a map or raises the
   error it raises for a bad magic (ValueError), never another exception. *)
C3_OnlyFormatError ==
    decPc = "read" => map_data.exc \in {"none", "ValueError"}

(* C4: when save_keepout_map has returned or raised, the output file is
   untouched (or was never created) or holds the complete header followed
   by the complete bitmap. *)
CompleteFile ==
    /\ mapFile.exists
    /\ Len(mapFile.data) = HeaderSize + Len(bitmap_bytes)
    /\ SubSeq(mapFile.data, 1, 6) = MAGIC \o <<VERSION>>
    /\ SubSeq(mapFile.data, HeaderSize + 1, Len(mapFile.data)) = bitmap_bytes

C4_AllOrNothing ==
    EncoderLeft => (mapFile = oldFile \/ CompleteFile)

(* C5: a stream with a complete 16-byte header whose magic is not KOMAP,
   whose version is not 1, or that holds fewer than ceil(width*height/8)
   bytes after the header makes read_map_file raise ValueError, and no mask
   is decoded from it. *)
StreamWidth == mapFile.data[7] + 256 * mapFile.data[8]
StreamHeight == mapFile.data[9] + 256 * mapFile.data[10]
BadMagic == SubSeq(mapFile.data, 1, 5) # MAGIC
BadVersion == mapFile.data[6] # 1
ShortBitmap ==
    Len(mapFile.data) - HeaderSize < ExpectedBitmapSize(StreamWidth, StreamHeight)

C5_HeaderChecks ==
    (Len(mapFile.data) >= HeaderSize /\ (BadMagic \/ BadVersion \/ ShortBitmap)) =>
        /\ decPc = "read" => map_data.exc = "ValueError"
        /\ decPc # "decoded"

C5_Witness ==
    /\ decPc = "read"
    /\ Len(mapFile.data) >= HeaderSize
    /\ ~BadMagic /\ ~BadVersion
    /\ Len(mapFile.data) - HeaderSize
         = ExpectedBitmapSize(StreamWidth, StreamHeight) - 1
    /\ map_data.exc = "ValueError"

(* C6: once a file has decoded, appending bytes to it or changing the
   padding bits beyond width*height in its last bitmap byte never makes
   read_map_file fail and never changes a pixel of the decoded mask. *)
C6_ExtraAndPaddingIgnored ==
    tampers > 0 =>
        /\ decPc = "read" => map_data.exc = "none"
        /\ decPc = "decoded" => bitmap = refBitmap

C6_Witness ==
    /\ tampers > 0
    /\ decPc = "decoded"
    /\ map_data.extra > 0
    /\ PaddingBits(map_data.width, map_data.height) > 0
    /\ bitmap # {}

(* C7: the bytes save_keepout_map writes at offsets 0..15 are KOMAP, 1, the
   width as u16 little-endian, the height as u16 little-endian and six
   zeros, and read_map_file reads the mask's width and height back. *)
ExpectedHeader(w, h) ==
    <<75, 79, 77, 65, 80, 1,
      w % 256, (w \div 256) % 256, h % 256, (h \div 256) % 256,
      0, 0, 0, 0, 0, 0>>

C7_HeaderLayout ==
    /\ (~keep_out_mask.isNone /\ encPc \notin {"call", "packed"}) =>
          \A i \in 1 .. Min(Len(mapFile.data), HeaderSize) :
              mapFile.data[i] = ExpectedHeader(keep_out_mask.w, keep_out_mask.h)[i]
    /\ Encoded => Len(mapFile.data) >= HeaderSize
    /\ (Encoded /\ decPc # "idle") =>
          /\ map_data.exc = "none"
          /\ map_data.width = keep_out_mask.w
          /\ map_data.height = keep_out_mask.h

C7_Witness ==
    /\ Encoded
    /\ decPc = "read"
    /\ keep_out_mask.w = 300
    /\ map_data.width = 300
    /\ SubSeq(mapFile.data, 7, 8) = <<44, 1>>

----------------------------------------------------------------------------
(* Keep-out mask builder: detect_objects_yolo and process_image *)

BoxBranch == bldPc = "loop" /\ ~SegBranch

(* C8: one detection box (10,10,20,20) with a margin of 5 on a 100x100
   image gives a mask where (3,3) is keep-out and (1,1) is not. *)
C8_Scene ==
    /\ img = ExampleImage
    /\ expand_margin = 5
    /\ BoxBranch
    /\ results.boxes = <<ExampleBox>>
    /\ LoopDone

C8_Original ==
    C8_Scene => (<<3, 3>> \in detect_mask /\ <<1, 1>> \notin detect_mask)

(* C8 as amended: the keep-out pixels of that mask are exactly those with
   5 <= x < 25 and 5 <= y < 25, so (5,5) is keep-out and neither (3,3) nor
   (1,1) is. *)
C8_ExpandedBox ==
    C8_Scene =>
        /\ detect_mask = (5 .. 24) \X (5 .. 24)
        /\ <<5, 5>> \in detect_mask
        /\ <<3, 3>> \notin detect_mask
        /\ <<1, 1>> \notin detect_mask

C8_Witness == C8_Scene /\ <<5, 5>> \in detect_mask /\ <<24, 24>> \in detect_mask

(* C9: in box mode, after any number of detections has been processed with
   a margin m >= 0, pixel (x,y) is keep-out iff some processed detection,
   its corners (x1,y1,x2,y2) taken as the whole pixels int() gives, has
   max(0,x1-m) <= x < min(w,x2+m) and max(0,y1-m) <= y < min(h,y2+m); the
   mask after k detections therefore contains the mask after k-1, and every
   slice bound lies within the image. *)
InExpanded(p, b, m, w, h) ==
    /\ Max(0, IntTrunc(b.x1) - m) <= p[1]
    /\ p[1] < Min(w, IntTrunc(b.x2) + m)
    /\ Max(0, IntTrunc(b.y1) - m) <= p[2]
    /\ p[2] < Min(h, IntTrunc(b.y2) + m)

C9_BoxUnion ==
    (BoxBranch /\ expand_margin >= 0) =>
        /\ \A p \in Pixels(img.w, img.h) :
              p \in detect_mask <=>
                  \E i \in 1 .. idx :
                      InExpanded(p, results.boxes[i], expand_margin, img.w, img.h)
        /\ detect_mask \subseteq Pixels(img.w, img.h)
        /\ \A i \in 1 .. idx :
              LET e == ExpandBox(results.boxes[i], expand_margin, img.w, img.h)
              IN  /\ 0 <= e.x1 /\ e.x1 <= img.w /\ 0 <= e.x2 /\ e.x2 <= img.w
                  /\ 0 <= e.y1 /\ e.y1 <= img.h /\ 0 <= e.y2 /\ e.y2 <= img.h

C9_Witness ==
    /\ BoxBranch
    /\ img = SmallImage
    /\ expand_margin = 1
    /\ idx = 2
    /\ ExpandBox(results.boxes[1], expand_margin, img.w, img.h).x1 = 0
    /\ ExpandBox(results.boxes[2], expand_margin, img.w, img.h).x2 = img.w
    /\ \E p \in detect_mask :
          ~InExpanded(p, results.boxes[2], expand_margin, img.w, img.h)
    /\ \E p \in detect_mask :
          ~InExpanded(p, results.boxes[1], expand_margin, img.w, img.h)

(* C10: with zero detections detect_objects_yolo returns None, never an
   all-zero mask; save_keepout_map given None leaves the output path as it
   was; and process_image then creates no map file but has written the
   converted image when it is done. *)
C10_NoDetectionsNoMap ==
    /\ (bldPc = "returned" /\ detections = 0) => keep_out_mask.isNone
    /\ (keep_out_mask.isNone /\ encPc = "returned") =>
          (mapFile = oldFile /\ bitmap_bytes = <<>>)
    /\ (entry = "process_image" /\ detections = 0) => ~mapFile.exists
    /\ (entry = "process_image" /\ procPc = "done") => pngFile

C10_Witness ==
    /\ entry = "process_image"
    /\ procPc = "done"
    /\ generate_maps
    /\ model # "none"
    /\ detections = 0
    /\ keep_out_mask.isNone
    /\ pngFile
    /\ ~mapFile.exists

(* C11: a call of the mask builder with a negative margin fails with an
   error: it does not return, it marks no detection and it hands no mask to
   process_image. *)
C11_InvalidParameterRejected ==
    (entry = "process_image" /\ expand_margin < 0) =>
        /\ bldPc # "returned"
        /\ detections = 0
        /\ keep_out_mask.isNone

(* C12: when a keep-out map was requested and the detector cannot be used
   (the ML imports failed, or no model could be loaded), the run ends
   having written the converted image, with no mask and no map file. *)
DetectorUnavailable == ~HAS_ML \/ (bldPc = "returned" /\ model = "none")
RunEnded == procPc \in {"exited", "complete"}

C12_DetectorUnavailableNotFatal ==
    (entry = "process_image" /\ generate_maps /\ DetectorUnavailable /\ RunEnded) =>
        /\ pngFile
        /\ keep_out_mask.isNone
        /\ ~mapFile.exists

(* C13: when segmentation was requested and yolov8n-seg.pt failed to load,
   detect_objects_yolo loads yolov8n.pt next; if that loads, every
   detection takes the box branch, the mask is the one box mode builds from
   the same boxes and the value returned is the one box mode returns; the
   function returns None without running a model only if yolov8n.pt failed
   to load too. *)
SegFailed == Len(tried) >= 1 /\ tried[1] = Tried("yolov8n-seg.pt", FALSE)

RECURSIVE BoxModeMask(_, _)
BoxModeMask(boxes, k) ==
    IF k = 0 THEN {}
    ELSE MarkBox(BoxModeMask(boxes, k - 1), boxes[k], expand_margin, img.w, img.h)

BoxModeReturn(boxes) ==
    IF Len(boxes) = 0 THEN None
    ELSE Mask(img.w, img.h, BoxModeMask(boxes, Len(boxes)))

C13_SegmentationFallback ==
    (entry = "process_image" /\ map_method = "segmentation" /\ SegFailed) =>
        /\ Len(tried) = 2
        /\ tried[2].file = "yolov8n.pt"
        /\ tried[2].ok =>
              /\ model = "yolov8n.pt"
              /\ bldPc \in {"run", "loop", "returned"}
              /\ bldPc = "loop" =>
                    /\ BoxBranch
                    /\ detect_mask = BoxModeMask(results.boxes, idx)
                    /\ LoopDone =>
                          DetectReturn(detections, detect_mask, img.w, img.h)
                              = BoxModeReturn(results.boxes)
              /\ bldPc = "returned" => (keep_out_mask.isNone <=> detections = 0)
        /\ ~tried[2].ok =>
              /\ model = "none"
              /\ bldPc = "returned"
              /\ keep_out_mask.isNone

C13_Witness ==
    /\ entry = "process_image"
    /\ map_method = "segmentation"
    /\ SegFailed
    /\ tried[2].ok
    /\ LoopDone
    /\ idx = 2
    /\ detect_mask # {}

(* C14: once the loop over a list of files has started, process_image is
   called on each file exactly once, in list order, whichever of them raise,
   and the run reaches 'Processing complete' having called it on all. *)
InListOrder ==
    /\ Len(attempted) <= Len(all_image_files)
    /\ \A i \in 1 .. Len(attempted) : attempted[i] = i
    /\ procPc = "complete" => Len(attempted) = Len(all_image_files)

C14_BatchCompletes ==
    /\ [](entry = "process_image" => InListOrder)
    /\ (procPc = "loop") ~> (procPc = "complete")

C14_Witness ==
    /\ procPc = "complete"
    /\ Len(all_image_files) = 2
    /\ all_image_files[1] # "never"
    /\ all_image_files[2] = "never"
    /\ attempted = <<1, 2>>
    /\ pngFile

----------------------------------------------------------------------------
(* Palette mapping *)

(* Colours a clipped pixel can hold: a grid of channel levels, the palette
   itself, and colours at the same distance from white and from blue *)
Levels == {0, 64, 127, 128, 192, 255}
TieColours == {<<5, 215, 255>>, <<1, 227, 222>>, <<53, 199, 189>>}
ColourInputs == (Levels \X Levels \X Levels) \cup TieColours

SpectraColours ==
    {SPECTRA_PALETTE[i] : i \in 1 .. Len(SPECTRA_PALETTE)}
    \cup {<<0, 0, 0>>, <<255, 255, 255>>, <<0, 0, 255>>, <<0, 255, 0>>}
SpectraSizes == {<<1, 1>>, <<2, 1>>, <<1, 2>>}
SpectraImages ==
    UNION {{Image(sz[1], sz[2], px) : px \in [Pixels(sz[1], sz[2]) -> SpectraColours]} :
             sz \in SpectraSizes}

InitClosest ==
    /\ entry = "closest_palette_color"
    /\ rgb \in ColourInputs
    /\ closest = 0
    /\ palPc = "call"
    /\ InitSpectraIdle

InitMapToSpectra ==
    /\ entry = "map_to_spectra"
    /\ img_array \in SpectraImages
    /\ mapped = NoImage
    /\ mapPc = "call"
    /\ InitPaletteIdle

InitPalette ==
    /\ InitClosest \/ InitMapToSpectra
    /\ analysis = NoAnalysis
    /\ InitAtkinsonIdle
    /\ InitTanmatsuIdle
    /\ InitCodecIdle
    /\ InitVerifyVars
    /\ InitBuildIdle

NextPalette == ClosestPaletteColor \/ MapToSpectra

SpecPalette == InitPalette /\ [][NextPalette]_vars

(* C15: for a colour that is palette entry i, closest_palette_color returns
   i, its distance to entry i is 0 and its distance to every other entry is
   strictly positive. *)
C15_PaletteFixedPoint ==
    palPc = "returned" =>
        \A i \in 1 .. Len(PALETTE_COLORS) :
            rgb = PALETTE_COLORS[i] =>
                /\ closest = i - 1
                /\ TotalDist(rgb)[i] = 0
                /\ \A j \in 1 .. Len(PALETTE_COLORS) :
                      j # i => TotalDist(rgb)[j] > 0

C15_Witness ==
    /\ palPc = "returned"
    /\ rgb = PALETTE_COLORS[6]
    /\ closest = 5

(* C16: the index closest_palette_color returns has the smallest distance
   of all palette entries, and no entry with a lower index is at that
   distance. *)
C16_MinimalLowestIndex ==
    palPc = "returned" =>
        /\ closest \in 0 .. (Len(PALETTE_COLORS) - 1)
        /\ \A j \in 1 .. Len(PALETTE_COLORS) :
              TotalDist(rgb)[closest + 1] <= TotalDist(rgb)[j]
        /\ \A j \in 1 .. closest :
              TotalDist(rgb)[j] > TotalDist(rgb)[closest + 1]

C16_Witness ==
    /\ palPc = "returned"
    /\ rgb = <<5, 215, 255>>
    /\ TotalDist(rgb)[2] = TotalDist(rgb)[5]
    /\ closest = 1

(* C17: the array map_to_spectra returns has the width and height of the
   input and every cell holds the position, 0..5, of the nearest palette
   entry in SPECTRA_PALETTE. *)
NearestPosition(c) ==
    CHOOSE i \in 0 .. (Len(SPECTRA_PALETTE) - 1) :
        /\ \A j \in 1 .. Len(SPECTRA_PALETTE) :
              LabDistances(c)[i + 1] <= LabDistances(c)[j]
        /\ \A j \in 1 .. i : LabDistances(c)[j] > LabDistances(c)[i + 1]

SameShape ==
    /\ mapped.w = img_array.w
    /\ mapped.h = img_array.h
    /\ DOMAIN mapped.px = Pixels(img_array.w, img_array.h)

C17_PaletteIndices ==
    mapPc = "returned" =>
        /\ SameShape
        /\ \A p \in Pixels(img_array.w, img_array.h) :
              /\ mapped.px[p] \in 0 .. (Len(SPECTRA_PALETTE) - 1)
              /\ mapped.px[p] = NearestPosition(img_array.px[p])

(* C17 as amended: the cells hold the Spectra colour code of the nearest
   palette entry: its position for black, white, yellow and red (0..3), 5
   for blue (position 4) and 6 for green (position 5). *)
SpectraCode(i) == IF i <= 3 THEN i ELSE i + 1

C17_SpectraCodes ==
    mapPc = "returned" =>
        /\ SameShape
        /\ \A p \in Pixels(img_array.w, img_array.h) :
              /\ mapped.px[p] \in {0, 1, 2, 3, 5, 6}
              /\ mapped.px[p] = SpectraCode(NearestPosition(img_array.px[p]))

C17_Witness ==
    /\ mapPc = "returned"
    /\ img_array.w = 2
    /\ img_array.px[<<0, 0>>] = <<0, 0, 255>>
    /\ img_array.px[<<1, 0>>] = <<55, 140, 85>>
    /\ mapped.px[<<0, 0>>] = 5
    /\ mapped.px[<<1, 0>>] = 6

----------------------------------------------------------------------------
(* Map analysis: verify_map_file run on a well-formed map file *)

RECURSIVE StreamBits(_, _, _)
StreamBits(m, k, bit) ==
    IF bit > 7 THEN 0
    ELSE (IF k + bit < m.w * m.h /\ <<(k + bit) % m.w, (k + bit) \div m.w>> \in m.px
          THEN 2 ^ (7 - bit) ELSE 0)
         + StreamBits(m, k, bit + 1)

MapBytes(m) ==
    MAGIC \o <<VERSION>> \o StructPackH(m.w) \o StructPackH(m.h) \o Repeat(0, 6)
    \o [i \in 1 .. ExpectedBitmapSize(m.w, m.h) |-> StreamBits(m, 8 * (i - 1), 0)]

Square3(x, y) == (x .. (x + 2)) \X (y .. (y + 2))

SquaresImage == [w |-> 7, h |-> 6]
TwoSquareMasks ==
    {Mask(SquaresImage.w, SquaresImage.h, Square3(a[1], a[2]) \cup Square3(b[1], b[2])) :
        a, b \in {c \in (0 .. (SquaresImage.w - 3)) \X (0 .. (SquaresImage.h - 3)) : TRUE}}

AllMasks(w, h) == {Mask(w, h, px) : px \in SUBSET Pixels(w, h)}

AnalyzeInputs ==
    {m \in TwoSquareMasks : Cardinality(m.px) = 18}
    \cup AllMasks(3, 3) \cup AllMasks(5, 1) \cup AllMasks(1, 4)

InitAnalyze ==
    /\ entry = "verify_map_file"
    /\ keep_out_mask = None
    /\ mapFile \in {File(MapBytes(m)) : m \in AnalyzeInputs}
    /\ oldFile = mapFile
    /\ bitmap_bytes = <<>>
    /\ encPc = "idle"
    /\ encExc = "none"
    /\ InitVerifyVars
    /\ InitToolsIdle
    /\ InitBuildIdle

NextAnalyze == ReadMapFile \/ AnalyzeMap

SpecAnalyze == InitAnalyze /\ [][NextAnalyze]_vars

Analyzed == decPc = "analyzed"
ImagePixels == Pixels(map_data.width, map_data.height)

(* The pairs of corners of two 3x3 squares that share no pixel and make up
   the keep-out pixels *)
SquareAt(p) == Square3(p[1], p[2])
SquarePairs ==
    {ab \in ImagePixels \X ImagePixels :
        /\ SquareAt(ab[1]) \subseteq ImagePixels
        /\ SquareAt(ab[2]) \subseteq ImagePixels
        /\ SquareAt(ab[1]) \cap SquareAt(ab[2]) = {}
        /\ bitmap = SquareAt(ab[1]) \cup SquareAt(ab[2])}

TwoAreaNineRegions ==
    /\ analysis.num_regions = 2
    /\ Len(analysis.regions) = 2
    /\ analysis.regions[1].area = 9
    /\ analysis.regions[2].area = 9
    /\ analysis.coverage.num * (map_data.width * map_data.height)
          = 18 * 100 * analysis.coverage.den

(* C18: for every mask whose keep-out pixels are exactly two disjoint 3x3
   squares, at any placement, analyze_map returns 2 regions of area 9 each
   and a coverage of 18/(w*h)*100. *)
C18_TwoSquares ==
    (Analyzed /\ SquarePairs # {}) => TwoAreaNineRegions

(* C18 as amended: the same holds when no pixel of one square shares an
   edge with a pixel of the other (the squares are apart or touch at a
   corner only); two squares that share an edge are one region of area 18,
   with the same coverage. *)
SideBySide(p, q) ==
    (p[1] = q[1] /\ (p[2] = q[2] + 1 \/ q[2] = p[2] + 1))
    \/ (p[2] = q[2] /\ (p[1] = q[1] + 1 \/ q[1] = p[1] + 1))

SharingAnEdge(ab) ==
    \E p \in SquareAt(ab[1]), q \in SquareAt(ab[2]) : SideBySide(p, q)

C18_TwoSeparateSquares ==
    Analyzed =>
        \A ab \in SquarePairs :
            IF SharingAnEdge(ab)
            THEN /\ analysis.num_regions = 1
                 /\ analysis.regions[1].area = 18
                 /\ analysis.coverage.num * (map_data.width * map_data.height)
                       = 18 * 100 * analysis.coverage.den
            ELSE TwoAreaNineRegions

C18_Witness ==
    /\ Analyzed
    /\ bitmap = Square3(0, 0) \cup Square3(3, 3)
    /\ analysis.num_regions = 2
    /\ analysis.regions[2].bbox = <<3, 3, 5, 5>>

(* C19: analyze_map returns one region per connected component of the
   keep-out pixels (pixels sharing an edge are connected), each with the
   component's tight bounding box and its pixel count, in non-increasing
   order of area; the areas sum to the number of keep-out pixels, and
   coverage is keep-out pixels / total pixels * 100. *)
RECURSIVE Reach(_)
Reach(S) ==
    LET T == S \cup {q \in bitmap : \E p \in S : SideBySide(p, q)}
    IN  IF T = S THEN S ELSE Reach(T)

Components == {Reach({p}) : p \in bitmap}

TightBox(c, r) ==
    /\ \A p \in c : r.bbox[1] <= p[1] /\ p[1] <= r.bbox[3]
                     /\ r.bbox[2] <= p[2] /\ p[2] <= r.bbox[4]
    /\ \E p \in c : p[1] = r.bbox[1]
    /\ \E p \in c : p[1] = r.bbox[3]
    /\ \E p \in c : p[2] = r.bbox[2]
    /\ \E p \in c : p[2] = r.bbox[4]

RECURSIVE SumAreas(_, _)
SumAreas(regions, k) == IF k = 0 THEN 0 ELSE regions[k].area + SumAreas(regions, k - 1)

C19_RegionsAreComponents ==
    Analyzed =>
        LET R == analysis.regions
        IN  /\ analysis.num_regions = Len(R)
            /\ Len(R) = Cardinality(Components)
            /\ \E f \in [1 .. Len(R) -> Components] :
                  /\ \A i, j \in 1 .. Len(R) : f[i] = f[j] => i = j
                  /\ \A i \in 1 .. Len(R) :
                        TightBox(f[i], R[i]) /\ R[i].area = Cardinality(f[i])
            /\ \A i, j \in 1 .. Len(R) : i < j => R[i].area >= R[j].area
            /\ SumAreas(R, Len(R)) = analysis.keep_out_pixels
            /\ analysis.keep_out_pixels = Cardinality(bitmap)
            /\ analysis.total_pixels = map_data.width * map_data.height
            /\ analysis.coverage.num * analysis.total_pixels
                  = analysis.keep_out_pixels * 100 * analysis.coverage.den

C19_Witness ==
    /\ Analyzed
    /\ map_data.width = 3
    /\ bitmap = {<<0, 0>>, <<2, 0>>, <<2, 1>>, <<0, 2>>, <<1, 2>>, <<2, 2>>}
    /\ analysis.num_regions = 2
    /\ analysis.regions[1] = [bbox |-> <<0, 0, 2, 2>>, area |-> 5]
    /\ analysis.regions[2] = [bbox |-> <<0, 0, 0, 0>>, area |-> 1]

----------------------------------------------------------------------------
(* Quantizer: quantize_atkinson run on a small RGB image *)

AtkColours == {<<0, 0, 0>>, <<128, 128, 128>>, <<200, 30, 30>>}
AtkSizes == {<<3, 2>>, <<2, 2>>, <<1, 1>>, <<1, 3>>, <<3, 1>>}
AtkImages ==
    UNION {{Image(sz[1], sz[2], [p \in Pixels(sz[1], sz[2]) |-> Scaled(px[p])]) :
              px \in [Pixels(sz[1], sz[2]) -> AtkColours]} : sz \in AtkSizes}

InitQuantize ==
    /\ entry = "quantize_atkinson"
    /\ working_img \in AtkImages
    /\ visited = 0
    /\ error = <<0, 0, 0>>
    /\ quantized_array = NoImage
    /\ atkPc = "loop"
    /\ InitPaletteIdle
    /\ InitSpectraIdle
    /\ analysis = NoAnalysis
    /\ InitTanmatsuIdle
    /\ InitCodecIdle
    /\ InitVerifyVars
    /\ InitBuildIdle

SpecQuantize == InitQuantize /\ [][quantize_atkinson]_vars

(* The pixel the step from this state processes, and its four targets *)
CurX == visited % working_img.w
CurY == visited \div working_img.w
Right == <<CurX + 1, CurY>>
DownLeft == <<CurX - 1, CurY + 1>>
Below == <<CurX, CurY + 1>>
DownRight == <<CurX + 1, CurY + 1>>
Targets == {Right, DownLeft, Below, DownRight}

PixelStep ==
    /\ atkPc = "loop"
    /\ visited' = visited + 1
    /\ Targets \subseteq DOMAIN working_img.px

(* eighths of the error of the processed pixel that the step adds to p *)
Gains(p, n) ==
    \A k \in 1 .. 3 :
        8 * (working_img'.px[p][k] - working_img.px[p][k]) = n * error'[k]

Untouched ==
    \A p \in DOMAIN working_img.px :
        p \notin Targets \cup {<<CurX, CurY>>} => working_img'.px[p] = working_img.px[p]

(* C20: for every pixel whose four targets are in bounds, the step adds
   exactly 1/8 of the pixel's error to each of the pixels to the right,
   down-left, directly below and down-right, and nothing to any other
   pixel, so 4/8 of the error is propagated. *)
C20_EighthToEachOfFour ==
    [][PixelStep =>
          /\ Gains(Right, 1) /\ Gains(DownLeft, 1)
          /\ Gains(Below, 1) /\ Gains(DownRight, 1)
          /\ Untouched]_vars

(* C20 as amended: the step adds 1/8 of the error to each of the pixels to
   the right, down-left and down-right and 1/4 of it to the pixel directly
   below, and nothing to any other pixel, so 5/8 of the error is propagated
   and 3/8 discarded. *)
C20_QuarterBelow ==
    [][PixelStep =>
          /\ Gains(Right, 1) /\ Gains(DownLeft, 1)
          /\ Gains(Below, 2) /\ Gains(DownRight, 1)
          /\ Untouched]_vars

C20_Witness ==
    /\ atkPc = "loop"
    /\ working_img.w = 3
    /\ visited = 2
    /\ working_img.h = 2
    /\ error[1] # 0

(* The pixel the step from this state processes *)
Cur == <<CurX, CurY>>

AnyPixelStep == atkPc = "loop" /\ visited' = visited + 1

(* np.clip(old_pixel, 0, 255) as a float value *)
Clamped(px) == [k \in 1 .. 3 |-> Clip(px[k], 0, 255 * Scale)]

(* C21: the error of a pixel is its working value clamped to [0,255] per
   channel minus the chosen palette colour, so every channel of every
   error lies in [-255, 255]. *)
C21_ErrorFromClampedValue ==
    [][AnyPixelStep =>
          \A k \in 1 .. 3 :
              /\ error'[k] = Clamped(working_img.px[Cur])[k] - working_img'.px[Cur][k]
              /\ error'[k] >= -255 * Scale
              /\ error'[k] <= 255 * Scale]_vars

(* Position of pixel p in row-major order *)
ScanIndex(p) == p[2] * working_img.w + p[1]

IsPaletteColour(v) == \E i \in 1 .. Len(PALETTE_COLORS) : v = Scaled(PALETTE_COLORS[i])

ReturnStep == atkPc = "loop" /\ atkPc' = "returned"

(* C22: pixels are quantized in row-major order; a step writes the chosen
   palette colour to the pixel it visits and otherwise changes only pixels
   that come strictly later in that order, so a quantized pixel is never
   modified again and the returned image holds, at every pixel, exactly the
   palette colour chosen when that pixel was visited. *)
C22_NoRevisit ==
    [][/\ AnyPixelStep =>
            /\ Cur \in DOMAIN working_img.px
            /\ ScanIndex(Cur) = visited
            /\ working_img'.px[Cur] =
                  Scaled(PALETTE_COLORS[closest_palette_color(ClippedInt(working_img.px[Cur])) + 1])
            /\ \A p \in DOMAIN working_img.px :
                  /\ ScanIndex(p) < visited => working_img'.px[p] = working_img.px[p]
                  /\ working_img'.px[p] # working_img.px[p] => ScanIndex(p) >= visited
                  /\ ScanIndex(p) < visited' => IsPaletteColour(working_img'.px[p])
       /\ ReturnStep =>
            /\ visited = working_img.w * working_img.h
            /\ \A p \in DOMAIN working_img.px :
                  /\ IsPaletteColour(working_img.px[p])
                  /\ Scaled(quantized_array'.px[p]) = working_img.px[p]]_vars

C22_Witness ==
    /\ atkPc = "returned"
    /\ quantized_array.w = 3
    /\ quantized_array.h = 2
    /\ error # <<0, 0, 0>>
    /\ \E p, q \in DOMAIN quantized_array.px : quantized_array.px[p] # quantized_array.px[q]

(* Eighths of the error that the in-bounds targets equal to p receive *)
InBoundsEighths(p) ==
    (IF p = Right THEN 1 ELSE 0) + (IF p = DownLeft THEN 1 ELSE 0)
    + (IF p = Below THEN 2 ELSE 0) + (IF p = DownRight THEN 1 ELSE 0)

(* C23: a target outside the image receives nothing and causes no write:
   a step leaves the set of pixels unchanged and adds to every pixel
   exactly the shares of the in-bounds targets that are that pixel, so the
   down-left share of a pixel in column 0 is not added to the last column
   of the next row, for every image size including 1x1, 1xN and Nx1. *)
C23_OutOfBoundsSkipped ==
    [][AnyPixelStep =>
          /\ DOMAIN working_img'.px = DOMAIN working_img.px
          /\ working_img'.w = working_img.w
          /\ working_img'.h = working_img.h
          /\ \A p \in DOMAIN working_img.px \ {Cur} : Gains(p, InBoundsEighths(p))]_vars

C23_Witness ==
    /\ atkPc = "loop"
    /\ working_img.w = 1
    /\ working_img.h = 3
    /\ visited = 1
    /\ error[1] # 0
    /\ working_img.px[<<0, 1>>] # Scaled(<<0, 0, 0>>)

----------------------------------------------------------------------------
(* Keep-out codec: the packing of save_keepout_map *)

Packed == encPc \notin {"idle", "call"} /\ ~keep_out_mask.isNone

(* The byte of the k-th group of 8 pixels of row y *)
GroupByte(y, g) == bitmap_bytes[y * RowBytes(keep_out_mask.w) + g + 1]

(* C24: the encoder emits, row by row, one byte per group of up to 8
   consecutive pixels of the row; bit (7-k) of the byte is set iff the
   k-th pixel of the group exists in the row and is keep-out, so the
   unused low bits of a row's last byte are 0 and no byte holds pixels of
   two rows. *)
C24_RowAlignedPacking ==
    Packed =>
        LET m == keep_out_mask
        IN  /\ Len(bitmap_bytes) = m.h * RowBytes(m.w)
            /\ \A y \in 0 .. m.h - 1 : \A g \in 0 .. RowBytes(m.w) - 1 :
                  /\ GroupByte(y, g) \in 0 .. 255
                  /\ \A k \in 0 .. 7 :
                        BitSet(GroupByte(y, g), 7 - k)
                           <=> (8 * g + k < m.w /\ <<8 * g + k, y>> \in m.px)

C24_Witness ==
    /\ Packed
    /\ keep_out_mask.w = 9
    /\ keep_out_mask.h = 2
    /\ keep_out_mask.px = {<<8, 0>>}
    /\ bitmap_bytes = <<0, 128, 0, 0>>

(* C25: for every mask whose width is a multiple of 8 the written file has
   length exactly 16 + w*h/8, the decoder reads the whole bitmap with no
   byte left over, and decoding yields the mask. *)
C25_AlignedRoundTrip ==
    (Encoded /\ keep_out_mask.w % 8 = 0) =>
        /\ Len(mapFile.data) = HeaderSize + (keep_out_mask.w * keep_out_mask.h) \div 8
        /\ decPc \in {"read", "decoded"} =>
              /\ map_data.exc = "none"
              /\ map_data.bitmap = bitmap_bytes
              /\ map_data.extra = 0
        /\ decPc = "decoded" => bitmap = keep_out_mask.px

C25_Witness ==
    /\ Encoded
    /\ decPc = "decoded"
    /\ keep_out_mask.w = 16
    /\ keep_out_mask.h = 3
    /\ keep_out_mask.px = {<<9, 2>>}
    /\ bitmap = {<<9, 2>>}
    /\ Len(mapFile.data) = 22

(* C26: for every mask with 1 <= width, height <= 65535, read_map_file on
   the file save_keepout_map wrote raises no error and reports the mask's
   width and height: the encoder wrote height*ceil(width/8) bitmap bytes,
   never fewer than the ceil(width*height/8) the decoder requires, and the
   surplus is left as ignored extra data. *)
C26_DecoderAcceptsEncoderOutput ==
    (/\ ~keep_out_mask.isNone
     /\ 1 <= keep_out_mask.w /\ keep_out_mask.w <= U16Max
     /\ 1 <= keep_out_mask.h /\ keep_out_mask.h <= U16Max
     /\ EncoderLeft) =>
        LET required == ExpectedBitmapSize(keep_out_mask.w, keep_out_mask.h)
            emitted == keep_out_mask.h * RowBytes(keep_out_mask.w)
        IN  /\ encPc = "returned"
            /\ Len(mapFile.data) = HeaderSize + emitted
            /\ emitted >= required
            /\ decPc \in {"read", "decoded"} =>
                  /\ map_data.exc = "none"
                  /\ map_data.width = keep_out_mask.w
                  /\ map_data.height = keep_out_mask.h
                  /\ Len(map_data.bitmap) = required
                  /\ map_data.extra = emitted - required

C26_Witness ==
    /\ Encoded
    /\ decPc = "read"
    /\ keep_out_mask.w = 1
    /\ keep_out_mask.h = 258
    /\ map_data.exc = "none"
    /\ map_data.height = 258
    /\ map_data.extra = 258 - 33

----------------------------------------------------------------------------
(* I2C bus lock: the register functions called one after another while
   another user of the bus takes and frees the lock *)

InitI2C ==
    /\ entry = "tanmatsu_i2c"
    /\ InitI2CIdle
    /\ InitKeyboardIdle
    /\ InitPaletteIdle
    /\ InitSpectraIdle
    /\ analysis = NoAnalysis
    /\ InitAtkinsonIdle
    /\ InitCodecIdle
    /\ InitVerifyVars
    /\ InitBuildIdle

NextI2C == Register_Call \/ register_functions \/ Bus_OtherLock \/ Bus_OtherUnlock

SpecI2C == InitI2C /\ [][NextI2C]_vars

(* C27: a register function that obtained the bus lock releases it exactly
   once before it returns or raises, whether the transfer succeeded or
   failed; one whose lock wait timed out, or that raised before the wait,
   never calls unlock; the driver holds the lock only during a transfer,
   so after any sequence of register functions it does not hold it. *)
LockDiscipline ==
    /\ regPc \in {"returned", "raised"} =>
          /\ unlock_calls = (IF acquired THEN 1 ELSE 0)
          /\ bus_lock # "driver"
          /\ regPc = "returned" => acquired
    /\ bus_lock = "driver" => regPc = "transfer" /\ acquired /\ unlock_calls = 0
    /\ regPc \in {"try_lock", "sleep"} => ~acquired /\ unlock_calls = 0

C27_LockReleasedOnce ==
    /\ []LockDiscipline
    /\ [][bus_lock = "other" /\ bus_lock' # "other" => unlock_calls' = unlock_calls]_vars

C27_Witness ==
    /\ regOp = EsWrite
    /\ regPc = "raised"
    /\ regExc = "RuntimeError"
    /\ acquired
    /\ unlock_calls = 1
    /\ transfers = 1
    /\ bus_lock = "other"

----------------------------------------------------------------------------
(* Keyboard: the handlers of tanmatsu.py called in any order, one at a
   time, with the keys of KeyBits going down and up between reads *)

InitKeyboard ==
    /\ entry = "tanmatsu_keyboard"
    /\ InitI2CIdle
    /\ InitKeyboardIdle
    /\ InitPaletteIdle
    /\ InitSpectraIdle
    /\ analysis = NoAnalysis
    /\ InitAtkinsonIdle
    /\ InitCodecIdle
    /\ InitVerifyVars
    /\ InitBuildIdle

NextKeyboard ==
    \/ start_auto_keyboard
    \/ _auto_poll_keyboard
    \/ poll_keyboard
    \/ stop_auto_keyboard
    \/ inject_call
    \/ register_functions
    \/ Bus_OtherLock
    \/ Bus_OtherUnlock

SpecKeyboard == InitKeyboard /\ [][NextKeyboard]_vars

Polls == {"_auto_poll_keyboard", "poll_keyboard"}
PollRunning == kbPc \in {"auto_read", "poll_read"}

(* A step in which a poll is called *)
PollCalled == kbPc = "idle" /\ returned'.fn \in Polls /\ returned' # returned

(* A step in which a running poll ends *)
PollEnds == PollRunning /\ kbPc' = "idle"

StartSetsGlobals == kbPc \in {"idle", "start_construct"} /\ kbPc' = "start_read"

(* C28: a poll in which inject_keyboard_to_stdin raises, and
   stop_auto_keyboard, leave _auto_poll_active false; while it is false a
   poll returns without touching the coprocessor and without injecting,
   and only start_auto_keyboard makes it true again; a poll never
   propagates an exception. *)
C28_FailureLatch ==
    /\ [](PollRunning => _auto_poll_active /\ _auto_poll_coprocessor)
    /\ [](returned.fn \in Polls => returned.value \in {"running", "None"})
    /\ [][/\ (PollEnds /\ regPc = "raised") => ~_auto_poll_active'
          /\ returned'.fn = "stop_auto_keyboard" => ~_auto_poll_active'
          /\ (PollCalled /\ ~_auto_poll_active) =>
                /\ kbPc' = "idle"
                /\ returned'.value = "None"
                /\ transfers' = 0
                /\ written' = <<>>
                /\ UNCHANGED <<bus_lock, regPc, acquired, unlock_calls, buffer>>
                /\ UNCHANGED <<_auto_poll_active, _auto_poll_prev_state, _chars_injected>>
          /\ (~_auto_poll_active /\ _auto_poll_active') => StartSetsGlobals]_vars

C28_Witness ==
    /\ returned = Returned("poll_keyboard", "None", "none")
    /\ ~_auto_poll_active
    /\ _auto_poll_coprocessor
    /\ transfers = 0
    /\ _chars_injected = 1
    /\ kbPc = "idle"

(* A step in which inject_keyboard_to_stdin ends, called by a poll or directly *)
InjectEnds == kbPc \in {"auto_read", "poll_read", "inject_read"} /\ kbPc' = "idle"

Strings(ws) == SelectSeq(ws, LAMBDA w : w.fn = "write_string")

(* C29: the first keymap character written with write_string after the
   counter was reset is written exactly twice, every later one exactly
   once; the counter grows by one with each such character and never
   decreases except in start_auto_keyboard, which sets it to 0. *)
C29_FirstCharTwice ==
    [][/\ InjectEnds =>
            LET ws == Strings(written')
            IN  /\ Len(ws) = (IF _chars_injected' = _chars_injected THEN 0
                              ELSE IF _chars_injected = 0 THEN 2 ELSE 1)
                /\ \A i, j \in 1 .. Len(ws) : ws[i] = ws[j]
                /\ _chars_injected' \in {_chars_injected, _chars_injected + 1}
       /\ StartSetsGlobals => _chars_injected' = 0
       /\ _chars_injected' # _chars_injected => InjectEnds \/ StartSetsGlobals
       /\ _chars_injected' < _chars_injected => StartSetsGlobals]_vars

C29_Witness ==
    /\ kbPc = "idle"
    /\ _chars_injected = 2
    /\ _auto_poll_active
    /\ written = <<WriteString(86, "v")>>
    /\ returned = Returned("poll_keyboard", "None", "True")

(* A step in which inject_keyboard_to_stdin returns (its read succeeded) *)
InjectReturns == InjectEnds /\ regPc = "returned"

KeymapKeys == {TANMATSU_KEYMAP[i].key : i \in 1 .. Len(TANMATSU_KEYMAP)}

(* Pressed in the state just read and not in the previous state passed in *)
NewlyPressed(k) ==
    /\ KeyPressed(buffer, k)
    /\ previous_state = <<>> \/ ~KeyPressed(previous_state, k)

FirstNewlyPressed(k) ==
    /\ NewlyPressed(k)
    /\ \E i \in 1 .. Len(TANMATSU_KEYMAP) :
          /\ TANMATSU_KEYMAP[i].key = k
          /\ \A j \in 1 .. i - 1 : ~NewlyPressed(TANMATSU_KEYMAP[j].key)

InjectedKeys(ws) == {ws[i].key : i \in 1 .. Len(ws)}

(* C30: a call injects a keymap key only if the key is pressed now and was
   not pressed in the previous state passed in; with an unchanged raw
   state it injects nothing and returns changed = False; and one call
   injects at most one keymap key, the first newly pressed one in keymap
   order. *)
C30_EdgeTriggeredOnePerCall ==
    [][InjectReturns =>
          LET keys == InjectedKeys(written')
          IN  /\ \A k \in keys : k \in KeymapKeys /\ NewlyPressed(k)
              /\ (previous_state # <<>> /\ buffer = previous_state) =>
                    written' = <<>> /\ returned'.changed = "False"
              /\ Cardinality(keys) <= 1
              /\ \A k \in keys : FirstNewlyPressed(k)]_vars

====
